---- MODULE Spec2Model ----
(***************************************************************************)
(* A model of the HDTV matrix integration: the API client (src/api.py),    *)
(* the state parser, and the polling coordinator (src/coordinator.py).     *)
(*                                                                         *)
(* Python values are modelled as follows.  An Optional is None (<<>>) or   *)
(* Some(v) (<<v>>).  A value whose Python type is decided at run time (a   *)
(* JSON body, coordinator.data) is a tagged record [t, v, s]: t is "list", *)
(* "dict" or "str"; v holds the list (a sequence) or the dict (a function  *)
(* from keys to values); s holds the string.  Timestamps are left out.     *)
(* refreshLog is a history variable: it records the refreshes that have    *)
(* completed and is read by no operation.                                  *)
(***************************************************************************)
EXTENDS Integers, Sequences, FiniteSets, TLC

VARIABLES
    statusArray,            \* the raw status array the device reports
    parsed,                 \* last result of StateParser.parse_status_array
    data,                   \* coordinator.data: the cached snapshot
    consecutive_failures,   \* coordinator._consecutive_failures
    last_update_success,    \* coordinator.last_update_success
    base_url,               \* api._base_url
    callback,               \* api._change_callback (None or Some(behaviour))
    notifyLog,              \* every notify_change call so far, in order
    reqs,                   \* every device request sent so far, in order
    inflight,               \* tasks whose request awaits its response
    tasks,                  \* per task: operation, position, locals, result
    refreshLog,             \* history: the completed refreshes, in order
    hass                    \* the host: hass.data[DOMAIN], services, platforms,
                            \* and the refreshes asked of the coordinator

vars == <<statusArray, parsed, data, consecutive_failures, last_update_success,
          base_url, callback, notifyLog, reqs, inflight, tasks, refreshLog,
          hass>>

---------------------------------------------------------------------------
(* Bounds of the model *)

MaxOutputs == 3

MaxPort == 5

MaxFailures == 4

MaxRequests == 9

MaxRefreshes == 4

MaxGrid == 2

MaxRegistrations == 3

MaxConfigured == 2

MaxConfigValue == 66

MaxSetups == 3

---------------------------------------------------------------------------
(* Program constants *)

DISCONNECTED_VALUE == 65535

DEFAULT_TIMEOUT == 10

STATUS == "get_json_scene.php"

COMMAND == "get_json_cmd.php"

SPLICE == "get_json_splice.php"

OUTPUT_TO_OUTPUT == "o2ox"

---------------------------------------------------------------------------
(* Python values *)

None == <<>>

Some(v) == <<v>>

EmptyDict == [k \in {} |-> k]

PyList(l) == [t |-> "list", v |-> l, s |-> ""]

PyDict(d) == [t |-> "dict", v |-> d, s |-> ""]

PyStr(x) == [t |-> "str", v |-> EmptyDict, s |-> x]

PyBool(b) == [t |-> "bool", v |-> EmptyDict, s |-> IF b THEN "True" ELSE "False"]

\* bool(x) of a tagged value
Truthy(x) == IF x.t = "str" THEN x.s # "" ELSE DOMAIN x.v # {}

\* d.get(key, default) on a dict
DictGet(d, key, default) == IF key \in DOMAIN d THEN d[key] ELSE default

\* d[key] = value on a dict
DictPut(d, key, value) ==
    [k \in DOMAIN d \cup {key} |-> IF k = key THEN value ELSE d[k]]

DigitStr(d) ==
    CASE d = 0 -> "0" [] d = 1 -> "1" [] d = 2 -> "2" [] d = 3 -> "3"
      [] d = 4 -> "4" [] d = 5 -> "5" [] d = 6 -> "6" [] d = 7 -> "7"
      [] d = 8 -> "8" [] d = 9 -> "9"

RECURSIVE NatToStr(_)
NatToStr(n) ==
    IF n < 10 THEN DigitStr(n) ELSE NatToStr(n \div 10) \o DigitStr(n % 10)

\* str(n) / f"{n}" of an int
IntToStr(n) == IF n < 0 THEN "-" \o NatToStr(0 - n) ELSE NatToStr(n)

---------------------------------------------------------------------------
(* State model and parser (src/api.py) *)

MatrixOutput(output_number, input_number, raw_value) ==
    [output_number |-> output_number,
     input_number |-> input_number,
     raw_value |-> raw_value]

\* mutant: the disconnected value is not recognised
ParseInputNum_NoSentinel(raw_value) == Some(raw_value + 1)

\* the input_num the parser's loop body computes for one raw value
ParseInputNum(raw_value) ==
    IF raw_value = DISCONNECTED_VALUE THEN None ELSE Some(raw_value + 1)

\* mutant: outputs are numbered from 0
OutputNum_ZeroBased(output_idx) == output_idx

\* the output_num of the element at 0-based position output_idx
OutputNum(output_idx) == output_idx + 1

\* the for loop of parse_status_array, from 0-based position output_idx on
RECURSIVE ParseLoop(_, _, _)
ParseLoop(status_array, output_idx, outputs) ==
    IF output_idx >= Len(status_array) THEN outputs
    ELSE LET output_num == OutputNum(output_idx)
             raw_value == status_array[output_idx + 1]
             input_num == ParseInputNum(raw_value)
         IN ParseLoop(status_array, output_idx + 1,
                      DictPut(outputs, output_num,
                              MatrixOutput(output_num, input_num, raw_value)))

\* StateParser.parse_status_array: a MatrixState
parse_status_array(status_array) ==
    [outputs |-> ParseLoop(status_array, 0, EmptyDict)]

\* MatrixState.total_outputs
total_outputs(state) == Cardinality(DOMAIN state.outputs)

\* f"output_{num}"
OutputKey(num) == "output_" \o IntToStr(num)

\* the loop of to_dict: matrix_dict after the outputs in todo have been added
RECURSIVE ToDictLoop(_, _, _)
ToDictLoop(state, todo, matrix_dict) ==
    IF todo = {} THEN matrix_dict
    ELSE LET num == CHOOSE n \in todo : \A m \in todo : n <= m
             output == state.outputs[num]
         IN ToDictLoop(state, todo \ {num},
                       DictPut(matrix_dict, OutputKey(num),
                               [input |-> output.input_number,
                                raw_value |-> output.raw_value]))

\* MatrixState.to_dict
to_dict(state) ==
    PyDict([matrix |-> ToDictLoop(state, DOMAIN state.outputs, EmptyDict),
            total_outputs |-> total_outputs(state)])

---------------------------------------------------------------------------
(* Strings *)

\* whether s ends with suffix
EndsWith(s, suffix) ==
    /\ Len(suffix) <= Len(s)
    /\ SubSeq(s, Len(s) - Len(suffix) + 1, Len(s)) = suffix

\* whether sub occurs in s
Contains(s, sub) ==
    \E k \in 1..(Len(s) - Len(sub) + 1) : SubSeq(s, k, k + Len(sub) - 1) = sub

\* position of the first occurrence of the character c in s, 0 if none
IndexOf(s, c) ==
    IF \E k \in 1..Len(s) : SubSeq(s, k, k) = c
    THEN CHOOSE k \in 1..Len(s) :
             /\ SubSeq(s, k, k) = c
             /\ \A j \in 1..(k - 1) : SubSeq(s, j, j) # c
    ELSE 0

\* s.rstrip("/")
RECURSIVE RStripSlash(_)
RStripSlash(s) ==
    IF Len(s) > 0 /\ SubSeq(s, Len(s), Len(s)) = "/"
    THEN RStripSlash(SubSeq(s, 1, Len(s) - 1))
    ELSE s

\* "; ".join(items) and friends
RECURSIVE Join(_, _)
Join(items, sep) ==
    IF Len(items) = 0 THEN ""
    ELSE IF Len(items) = 1 THEN items[1]
    ELSE items[1] \o sep \o Join(Tail(items), sep)

\* the part of a URL before its query string
UrlPath(url) ==
    IF IndexOf(url, "?") = 0 THEN url ELSE SubSeq(url, 1, IndexOf(url, "?") - 1)

\* the query string of a URL ("" if it has none)
UrlQueryString(url) ==
    IF IndexOf(url, "?") = 0 THEN ""
    ELSE SubSeq(url, IndexOf(url, "?") + 1, Len(url))

\* a query string "k=v&k2=v2" as the mapping the device reads from it
RECURSIVE ParseQuery(_)
ParseQuery(q) ==
    IF q = "" THEN EmptyDict
    ELSE LET amp == IndexOf(q, "&")
             pair == IF amp = 0 THEN q ELSE SubSeq(q, 1, amp - 1)
             rest == IF amp = 0 THEN "" ELSE SubSeq(q, amp + 1, Len(q))
             eq == IndexOf(pair, "=")
             key == IF eq = 0 THEN pair ELSE SubSeq(pair, 1, eq - 1)
             val == IF eq = 0 THEN "" ELSE SubSeq(pair, eq + 1, Len(pair))
         IN DictPut(ParseQuery(rest), key, val)

---------------------------------------------------------------------------
(* JSON text of the splice payload: json.dumps of [{"x":..,"y":..,"data":[..]}] *)

JInt(i) == [t |-> "int", i |-> i, s |-> ""]

JStr(s) == [t |-> "str", i |-> 0, s |-> s]

Quoted(s) == "\"" \o s \o "\""

JsonScalar(j) == IF j.t = "int" THEN IntToStr(j.i) ELSE Quoted(j.s)

RECURSIVE QuoteAll(_)
QuoteAll(strs) ==
    IF Len(strs) = 0 THEN <<>> ELSE <<Quoted(Head(strs))>> \o QuoteAll(Tail(strs))

\* json.dumps of a one-object splice payload with the given separators
JsonDumpsPayload(payload, item_sep, key_sep) ==
    LET obj == payload[1]
    IN "[{" \o Quoted("x") \o key_sep \o JsonScalar(obj.x) \o item_sep
            \o Quoted("y") \o key_sep \o JsonScalar(obj.y) \o item_sep
            \o Quoted("data") \o key_sep
            \o "[" \o Join(QuoteAll(obj.data), item_sep) \o "]"
            \o "}]"

\* json.dumps(payload) with the default separators
JsonDumps(payload) == JsonDumpsPayload(payload, ", ", ": ")

---------------------------------------------------------------------------
(* What the device and the network can answer to one GET *)

\* status codes the device may answer with: success, another non-error
\* status, a client error, a server error
Statuses == {200, 204, 404, 500}

\* a response body: its text and, when the text is JSON, the parsed value
JsonObjectBody == [text |-> "{}", json |-> Some(PyDict(EmptyDict))]

UnparseableBody == [text |-> "<html>", json |-> None]

JsonListBody(status_array) == [text |-> "[..]", json |-> Some(PyList(status_array))]

HttpOutcome(status, body) ==
    [kind |-> "http", status |-> status, body |-> body, err |-> ""]

\* asyncio.TimeoutError: str(e) is empty
TimeoutOutcome ==
    [kind |-> "timeout", status |-> 0, body |-> UnparseableBody, err |-> ""]

\* aiohttp.ClientError
NetErrorOutcome ==
    [kind |-> "neterr", status |-> 0, body |-> UnparseableBody,
     err |-> "Cannot connect to host"]

\* answers to a command or splice request
CommandOutcomes ==
    {TimeoutOutcome, NetErrorOutcome}
    \cup {HttpOutcome(st, b) : st \in Statuses,
                               b \in {JsonObjectBody, UnparseableBody}}

---------------------------------------------------------------------------
(* Exceptions and results *)

Exc(cls, msg, cause) == [cls |-> cls, msg |-> msg, cause |-> cause]

NoExc == Exc("", "", "")

PyNone == [t |-> "none", v |-> EmptyDict, s |-> ""]

Return(value) == [kind |-> "return", value |-> value, exc |-> NoExc]

Raise(exc) == [kind |-> "raise", value |-> PyNone, exc |-> exc]

---------------------------------------------------------------------------
(* Transport (src/api.py, _execute_request) *)

Request(url, params, timeout) ==
    [url |-> url, params |-> params, timeout |-> timeout]

\* the request _execute_request sends for an endpoint
ExecuteRequestSends(base, endpoint, params) ==
    Request(base \o endpoint, Some(params), Some(DEFAULT_TIMEOUT))

HTTPResponse(status_code, resp_data, success, error_message) ==
    [status_code |-> status_code, data |-> resp_data, success |-> success,
     error_message |-> error_message]

NoResponse == HTTPResponse(0, PyNone, FALSE, None)

\* str(json_error) of a body that is not JSON
JsonErrorText == "Expecting value"

\* the HTTPResponse built inside "async with" from status and body
BuildResponse(status, body) ==
    IF body.json # None
    THEN LET success == (status = 200)
         IN HTTPResponse(status, body.json[1], success,
                         IF success THEN None
                         ELSE Some("HTTP " \o IntToStr(status)))
    ELSE HTTPResponse(status, PyStr(body.text), FALSE,
                      Some("JSON parse error: " \o JsonErrorText))

\* mutant: a body that is not JSON is handed back before the status is looked at
ExecuteRequest_SkipsUnparseable(outcome) ==
    CASE outcome.kind = "timeout" ->
           [raised |-> TRUE, response |-> NoResponse,
            exc |-> Exc("ConnectionError",
                        "Request timeout after " \o IntToStr(DEFAULT_TIMEOUT) \o "s",
                        "TimeoutError")]
      [] outcome.kind = "neterr" ->
           [raised |-> TRUE, response |-> NoResponse,
            exc |-> Exc("ConnectionError", "Connection error: " \o outcome.err,
                        "ClientError")]
      [] OTHER ->
           LET response == BuildResponse(outcome.status, outcome.body)
           IN IF outcome.body.json = None
              THEN [raised |-> FALSE, response |-> response, exc |-> NoExc]
              ELSE IF ~response.success /\ outcome.status >= 500
              THEN [raised |-> TRUE, response |-> NoResponse,
                    exc |-> Exc("ConnectionError",
                                "Server error: " \o response.error_message[1], "")]
              ELSE IF ~response.success /\ outcome.status >= 400
              THEN [raised |-> TRUE, response |-> NoResponse,
                    exc |-> Exc("InvalidResponseError",
                                "Client error: " \o response.error_message[1], "")]
              ELSE [raised |-> FALSE, response |-> response, exc |-> NoExc]

\* _execute_request from the arrival of the outcome on: what it raises or returns
ExecuteRequest(outcome) ==
    CASE outcome.kind = "timeout" ->
           [raised |-> TRUE, response |-> NoResponse,
            exc |-> Exc("ConnectionError",
                        "Request timeout after " \o IntToStr(DEFAULT_TIMEOUT) \o "s",
                        "TimeoutError")]
      [] outcome.kind = "neterr" ->
           [raised |-> TRUE, response |-> NoResponse,
            exc |-> Exc("ConnectionError", "Connection error: " \o outcome.err,
                        "ClientError")]
      [] OTHER ->
           LET response == BuildResponse(outcome.status, outcome.body)
           IN IF ~response.success /\ outcome.status >= 500
              THEN [raised |-> TRUE, response |-> NoResponse,
                    exc |-> Exc("ConnectionError",
                                "Server error: " \o response.error_message[1], "")]
              ELSE IF ~response.success /\ outcome.status >= 400
              THEN [raised |-> TRUE, response |-> NoResponse,
                    exc |-> Exc("InvalidResponseError",
                                "Client error: " \o response.error_message[1], "")]
              ELSE [raised |-> FALSE, response |-> response, exc |-> NoExc]

---------------------------------------------------------------------------
(* set_route (src/api.py) *)

\* mutant: the output index is sent first
SetRouteParams_Swapped(input_port, output_port) ==
    [cmd |-> OUTPUT_TO_OUTPUT,
     prm |-> IntToStr(output_port - 1) \o "," \o IntToStr(input_port - 1)]

\* the query parameters of set_route
SetRouteParams(input_port, output_port) ==
    LET input_idx == input_port - 1
        output_idx == output_port - 1
    IN [cmd |-> OUTPUT_TO_OUTPUT,
        prm |-> IntToStr(input_idx) \o "," \o IntToStr(output_idx)]

SetRouteRequest(base, input_port, output_port) ==
    ExecuteRequestSends(base, COMMAND, SetRouteParams(input_port, output_port))

\* set_route from the arrival of the outcome on: whether it goes on to
\* notify_change, and the result it then ends with
SetRouteOnOutcome(outcome) ==
    LET r == ExecuteRequest(outcome)
    IN IF r.raised
       THEN [notify |-> FALSE,
             result |-> Raise(Exc("CommandError",
                                  "Failed to set route: " \o r.exc.msg,
                                  r.exc.cls))]
       ELSE [notify |-> TRUE, result |-> Return(r.response.data)]

---------------------------------------------------------------------------
(* set_all_to_input (src/api.py) *)

\* the entry appended to errors when set_route for one output raised
SetAllErrorEntry(num_outputs_num, exc) ==
    "num_outputs " \o IntToStr(num_outputs_num) \o ": " \o exc.msg

\* what set_all_to_input ends with once the loop is over
SetAllResult(errors) ==
    IF Len(errors) > 0
    THEN Raise(Exc("CommandError",
                   "Failed to set all num_outputs: " \o Join(errors, "; "), ""))
    ELSE Return(PyNone)

---------------------------------------------------------------------------
(* set_splice_and_video (src/api.py) *)

cases ==
    << [prm |-> "1,1,1,2,2,1,", splice |-> <<"1", "-1", "-1", "-1">>],
       [prm |-> "2,1,2,2,2,1,", splice |-> <<"1", "2", "-1", "-1">>],
       [prm |-> "3,1,3,2,2,1,", splice |-> <<"1", "2", "3", "-1">>],
       [prm |-> "4,1,4,2,2,1,", splice |-> <<"1", "2", "3", "4">>] >>

cmd_url(base) == base \o "/get_json_cmd.php"

splice_url(base) == base \o "get_json_splice.php"

\* the "cmd=splice" request of case idx: the query is written into the URL
PresetCmdRequest(base, idx) ==
    Request(cmd_url(base) \o "?cmd=splice&prm=" \o cases[idx].prm,
            None, Some(DEFAULT_TIMEOUT))

splice_payload(idx) ==
    << [x |-> JStr("2"), y |-> JStr("2"), data |-> cases[idx].splice] >>

\* the get_json_splice.php request of case idx
PresetDataRequest(base, idx) ==
    Request(splice_url(base), Some([splice |-> JsonDumps(splice_payload(idx))]),
            Some(DEFAULT_TIMEOUT))

PresetRequest(base, idx, half) ==
    IF half = "cmd" THEN PresetCmdRequest(base, idx)
    ELSE PresetDataRequest(base, idx)

\* mutant: the status of the command response is not checked
PresetCmdOnOutcome_IgnoreStatus(idx, outcome) ==
    CASE outcome.kind = "timeout" ->
           Exc("ConnectionError",
               "Splice CMD timeout after " \o IntToStr(DEFAULT_TIMEOUT) \o "s",
               "TimeoutError")
      [] outcome.kind = "neterr" ->
           Exc("ConnectionError",
               "Splice CMD connection error: " \o outcome.err, "ClientError")
      [] OTHER -> NoExc

\* the command half of case idx from the arrival of the outcome on:
\* the exception it raises, or NoExc when the case goes on
PresetCmdOnOutcome(idx, outcome) ==
    CASE outcome.kind = "timeout" ->
           Exc("ConnectionError",
               "Splice CMD timeout after " \o IntToStr(DEFAULT_TIMEOUT) \o "s",
               "TimeoutError")
      [] outcome.kind = "neterr" ->
           Exc("ConnectionError",
               "Splice CMD connection error: " \o outcome.err, "ClientError")
      [] OTHER ->
           IF outcome.status # 200
           THEN Exc("CommandError",
                    "Splice CMD failed (case " \o IntToStr(idx) \o "): HTTP "
                        \o IntToStr(outcome.status), "")
           ELSE NoExc

\* the data half of case idx: every exception is re-raised as a CommandError
PresetDataOnOutcome(idx, outcome) ==
    LET wrap(text) ==
            Exc("CommandError",
                "Error configurando videowall DATA (case " \o IntToStr(idx)
                    \o "): " \o text, "")
    IN CASE outcome.kind = "timeout" -> wrap("")
         [] outcome.kind = "neterr" -> wrap(outcome.err)
         [] OTHER ->
              IF outcome.status # 200
              THEN wrap("Videowall splice DATA failed (case " \o IntToStr(idx)
                        \o "): HTTP " \o IntToStr(outcome.status) \o " - "
                        \o outcome.body.text)
              ELSE NoExc

PresetOnOutcome(idx, half, outcome) ==
    IF half = "cmd" THEN PresetCmdOnOutcome(idx, outcome)
    ELSE PresetDataOnOutcome(idx, outcome)

\* mutant: the data half of every case is skipped
PresetAdvance_SkipData(idx, half) == [idx |-> idx + 1, half |-> "cmd"]

\* where the loop stands after a successful half: the next (idx, half), or
\* idx past the last case when the loop is over
PresetAdvance(idx, half) ==
    IF half = "cmd" THEN [idx |-> idx, half |-> "data"]
    ELSE [idx |-> idx + 1, half |-> "cmd"]

\* mutant: the change is notified as soon as the first case is complete
PresetLoopOver_AfterFirstCase(idx) == idx > 1

\* whether the for loop over the cases is over, so that notify_change is next
PresetLoopOver(idx) == idx > Len(cases)

---------------------------------------------------------------------------
(* clear_videowall_mode (src/api.py) *)

\* no timeout is passed to session.get here
ClearRequest(base) ==
    Request(base \o "get_json_splice.php", Some([splice |-> "[]"]), None)

\* mutant: the status of the answer is not looked at
ClearOnOutcome_IgnoresStatus(outcome) ==
    LET wrap(text) == Raise(Exc("CommandError", "Error limpiando : " \o text, ""))
    IN CASE outcome.kind = "timeout" -> wrap("")
         [] outcome.kind = "neterr" -> wrap(outcome.err)
         [] OTHER -> Return(PyNone)

ClearOnOutcome(outcome) ==
    LET wrap(text) == Raise(Exc("CommandError", "Error limpiando : " \o text, ""))
    IN CASE outcome.kind = "timeout" -> wrap("")
         [] outcome.kind = "neterr" -> wrap(outcome.err)
         [] OTHER ->
              IF outcome.status # 200
              THEN wrap("Error limpiando : HTTP " \o IntToStr(outcome.status)
                        \o " - " \o outcome.body.text)
              ELSE Return(PyNone)

---------------------------------------------------------------------------
(* get_status (src/api.py) and the coordinator's refresh (src/coordinator.py) *)

GetStatusRequest(base) == ExecuteRequestSends(base, STATUS, [id |-> "0"])

\* answers to a status request: the list body carries the device's array
StatusOutcomes(status_array) ==
    {TimeoutOutcome, NetErrorOutcome}
    \cup {HttpOutcome(st, b) :
              st \in Statuses,
              b \in {JsonListBody(status_array), JsonObjectBody, UnparseableBody}}

\* mutant: a JSON object is not passed through but replaced by an empty parse
GetStatusOnOutcome_ParsesObject(outcome) ==
    LET r == ExecuteRequest(outcome)
    IN IF r.raised THEN Raise(r.exc)
       ELSE IF r.response.data.t = "list"
       THEN Return(to_dict(parse_status_array(r.response.data.v)))
       ELSE IF r.response.data.t = "dict"
       THEN Return(to_dict(parse_status_array(<<>>)))
       ELSE Return(r.response.data)

\* get_status from the arrival of the outcome on
GetStatusOnOutcome(outcome) ==
    LET r == ExecuteRequest(outcome)
    IN IF r.raised THEN Raise(r.exc)
       ELSE IF r.response.data.t = "list"
       THEN Return(to_dict(parse_status_array(r.response.data.v)))
       ELSE Return(r.response.data)

\* a record _LOGGER receives: its level and the failure count in its text
LogRecord(level, failures) == [level |-> level, failures |-> failures]

\* mutant: every connection failure is logged as a warning
ConnectionErrorLevel_AlwaysWarning(failures) == "warning"

\* the level of the log of a ConnectionError, from the counter after its
\* increment (_max_failures_before_warning is 3)
ConnectionErrorLevel(failures) ==
    IF failures >= 3 THEN "warning" ELSE "debug"

\* mutant: an invalid-response error of the status fetch is not caught
AsyncUpdateData_PropagatesInvalidResponse(outcome, failures) ==
    LET got == GetStatusOnOutcome(outcome)
        reset == IF failures > 0 THEN 0 ELSE failures
        restored == IF failures > 0 THEN <<LogRecord("info", failures)>>
                    ELSE <<>>
    IN IF got.kind = "raise"
       THEN [failures |-> failures + 1,
             result |-> IF got.exc.cls = "ConnectionError"
                        THEN Raise(Exc("UpdateFailed",
                                       "Connection error: " \o got.exc.msg,
                                       got.exc.cls))
                        ELSE got,
             logged |-> <<LogRecord(IF got.exc.cls = "ConnectionError"
                                    THEN ConnectionErrorLevel(failures + 1)
                                    ELSE "error", failures + 1)>>]
       ELSE IF got.value.t # "dict"
       THEN [failures |-> reset + 1,
             result |-> Raise(Exc("UpdateFailed",
                                  "Unexpected error: object has no attribute 'get'",
                                  "AttributeError")),
             logged |-> restored \o <<LogRecord("error", reset + 1)>>]
       ELSE [failures |-> reset, result |-> Return(got.value),
             logged |-> restored \o <<LogRecord("debug", reset)>>]

AsyncUpdateData(outcome, failures) ==
    LET got == GetStatusOnOutcome(outcome)
        reset == IF failures > 0 THEN 0 ELSE failures
        restored == IF failures > 0 THEN <<LogRecord("info", failures)>>
                    ELSE <<>>
    IN IF got.kind = "raise"
       THEN [failures |-> failures + 1,
             result |-> Raise(Exc("UpdateFailed",
                                  (IF got.exc.cls = "ConnectionError"
                                   THEN "Connection error: "
                                   ELSE "Invalid response: ") \o got.exc.msg,
                                  got.exc.cls)),
             logged |-> <<LogRecord(IF got.exc.cls = "ConnectionError"
                                    THEN ConnectionErrorLevel(failures + 1)
                                    ELSE "error", failures + 1)>>]
       ELSE IF got.value.t # "dict"
       \* data.get(...) of the debug log raises AttributeError on a non-dict
       THEN [failures |-> reset + 1,
             result |-> Raise(Exc("UpdateFailed",
                                  "Unexpected error: object has no attribute 'get'",
                                  "AttributeError")),
             logged |-> restored \o <<LogRecord("error", reset + 1)>>]
       ELSE [failures |-> reset, result |-> Return(got.value),
             logged |-> restored \o <<LogRecord("debug", reset)>>]

\* mutant: the connectivity flag does not look at the snapshot
is_connected_IgnoresData(success, snapshot) == success

\* coordinator.is_connected
is_connected(success, snapshot) == success /\ snapshot # None

\* coordinator.get_output_state
get_output_state(snapshot, output_number) ==
    IF snapshot = None \/ ~Truthy(snapshot[1]) THEN EmptyDict
    ELSE LET matrix_data == DictGet(snapshot[1].v, "matrix", EmptyDict)
             output_key == "output_" \o IntToStr(output_number)
         IN DictGet(matrix_data, output_key, EmptyDict)

\* coordinator.get_all_outputs
get_all_outputs(snapshot) ==
    IF snapshot = None \/ ~Truthy(snapshot[1]) THEN EmptyDict
    ELSE DictGet(snapshot[1].v, "matrix", EmptyDict)

\* the digit a one-character string stands for
DigitVal(c) == CHOOSE d \in 0..9 : DigitStr(d) = c

\* int(s) of a string of digits
RECURSIVE StrToNat(_)
StrToNat(s) ==
    IF Len(s) = 0 THEN 0
    ELSE (StrToNat(SubSeq(s, 1, Len(s) - 1)) * 10)
             + DigitVal(SubSeq(s, Len(s), Len(s)))

\* output_key.split("_")[1]
SplitSecond(output_key) ==
    LET rest == SubSeq(output_key, IndexOf(output_key, "_") + 1, Len(output_key))
        j == IndexOf(rest, "_")
    IN IF j = 0 THEN rest ELSE SubSeq(rest, 1, j - 1)

\* seq with x put in front of its first element greater than x
RECURSIVE InsertSorted(_, _)
InsertSorted(seq, x) ==
    IF Len(seq) = 0 THEN <<x>>
    ELSE IF x < Head(seq) THEN <<x>> \o seq
    ELSE <<Head(seq)>> \o InsertSorted(Tail(seq), x)

\* sorted(list) of a list of ints
RECURSIVE Sorted(_)
Sorted(seq) ==
    IF Len(seq) = 0 THEN <<>>
    ELSE InsertSorted(Sorted(Tail(seq)), Head(seq))

\* mutant: outputs without an input are listed too
HasInput_Always(output_data) == TRUE

\* output_data.get("input") is not None
HasInput(output_data) == DictGet(output_data, "input", None) # None

\* the for loop of get_connected_outputs over the items still to visit
RECURSIVE ConnectedLoop(_, _, _)
ConnectedLoop(matrix_data, todo, connected) ==
    IF todo = {} THEN connected
    ELSE LET output_key == CHOOSE k \in todo : TRUE
             output_data == matrix_data[output_key]
         IN ConnectedLoop(matrix_data, todo \ {output_key},
                          IF HasInput(output_data)
                          THEN Append(connected,
                                      StrToNat(SplitSecond(output_key)))
                          ELSE connected)

\* coordinator.get_connected_outputs
get_connected_outputs(snapshot) ==
    IF snapshot = None \/ ~Truthy(snapshot[1]) THEN <<>>
    ELSE LET matrix_data == DictGet(snapshot[1].v, "matrix", EmptyDict)
         IN Sorted(ConnectedLoop(matrix_data, DOMAIN matrix_data, <<>>))

---------------------------------------------------------------------------
(* The host (src/__init__.py): what async_setup_entry and the consumers of *)
(* the client leave in Home Assistant                                      *)

\* hass before any entry is set up: hass.data[DOMAIN] is empty, no service
\* is registered, no platform is loaded, no refresh has been requested
NoHost ==
    [data |-> {}, services |-> {}, platforms |-> {}, refresh_requests |-> <<>>,
     options |-> None, entities |-> {}]

\* the services async_setup_services registers
ServiceNames == {"set_route", "set_all_to_input", "set_videowall", "set_splice"}

---------------------------------------------------------------------------
(* Tasks: one coroutine each, suspended at its awaits *)

IdleTask ==
    [op |-> "", pc |-> "idle", input_port |-> 0, output_port |-> 0,
     num_inputs |-> 0, num_outputs |-> 0, data |-> None,
     idx |-> 0, half |-> "", errors |-> <<>>,
     pending |-> None, outcomes |-> <<>>, result |-> None,
     consumer |-> "", step |-> 0, cpc |-> "", cresult |-> None,
     logged |-> <<>>]

\* api.__init__: the normalised base URL
NormalizeBaseUrl(url) == RStripSlash(url) \o "/"

\* base URLs a config entry may hold
BaseUrls == {"http://m", "http://m/"}

\* the request a task at pc = "send" issues
TaskRequest(task, base) ==
    CASE task.op = "set_route" ->
           SetRouteRequest(base, task.input_port, task.output_port)
      [] task.op = "set_all_to_input" ->
           SetRouteRequest(base, task.input_port, task.idx)
      [] task.op = "set_splice_and_video" ->
           PresetRequest(base, task.idx, task.half)
      [] task.op = "clear_videowall_mode" -> ClearRequest(base)
      [] task.op = "refresh" -> GetStatusRequest(base)
      [] task.op = "get_status" -> GetStatusRequest(base)
      [] task.op = "test_connection" -> GetStatusRequest(base)

\* the tasks of the running specification
Tasks == DOMAIN tasks

Finish(task, result) == [task EXCEPT !.pc = "done", !.result = Some(result)]

\* mutant: the loop is left at the first failure
SetAllLoop_AbortEarly(task) ==
    IF task.idx <= task.num_outputs /\ task.errors = <<>>
    THEN [task EXCEPT !.pc = "send"]
    ELSE Finish(task, SetAllResult(task.errors))

\* the for loop of set_all_to_input at its head: another set_route, or the end
SetAllLoop(task) ==
    IF task.idx <= task.num_outputs THEN [task EXCEPT !.pc = "send"]
    ELSE Finish(task, SetAllResult(task.errors))

CallSetRoute(t, input_port, output_port) ==
    /\ tasks[t].pc = "idle"
    /\ tasks' = [tasks EXCEPT ![t] =
                    [IdleTask EXCEPT !.op = "set_route", !.pc = "send",
                                     !.input_port = input_port,
                                     !.output_port = output_port]]
    /\ UNCHANGED <<statusArray, parsed, data, consecutive_failures,
                   last_update_success, base_url, callback, notifyLog, reqs,
                   inflight, refreshLog, hass>>

CallSetAllToInput(t, input_port, num_outputs) ==
    /\ tasks[t].pc = "idle"
    /\ tasks' = [tasks EXCEPT ![t] =
                    SetAllLoop([IdleTask EXCEPT !.op = "set_all_to_input",
                                                !.input_port = input_port,
                                                !.num_outputs = num_outputs,
                                                !.idx = 1])]
    /\ UNCHANGED <<statusArray, parsed, data, consecutive_failures,
                   last_update_success, base_url, callback, notifyLog, reqs,
                   inflight, refreshLog, hass>>

CallSetSpliceAndVideo(t) ==
    /\ tasks[t].pc = "idle"
    /\ tasks' = [tasks EXCEPT ![t] =
                    [IdleTask EXCEPT !.op = "set_splice_and_video",
                                     !.pc = "send", !.idx = 1, !.half = "cmd"]]
    /\ UNCHANGED <<statusArray, parsed, data, consecutive_failures,
                   last_update_success, base_url, callback, notifyLog, reqs,
                   inflight, refreshLog, hass>>

CallClearVideowallMode(t) ==
    /\ tasks[t].pc = "idle"
    /\ tasks' = [tasks EXCEPT ![t] =
                    [IdleTask EXCEPT !.op = "clear_videowall_mode",
                                     !.pc = "send"]]
    /\ UNCHANGED <<statusArray, parsed, data, consecutive_failures,
                   last_update_success, base_url, callback, notifyLog, reqs,
                   inflight, refreshLog, hass>>

\* the position a task takes once its request is on the wire
AfterSendPc == "await"

\* session.get: the request goes out and the task is suspended on the response
Send(t) ==
    /\ tasks[t].pc = "send"
    /\ reqs' = Append(reqs, [task |-> t, op |-> tasks[t].op,
                             req |-> TaskRequest(tasks[t], base_url)])
    /\ inflight' = inflight \cup {Len(reqs) + 1}
    /\ tasks' = [tasks EXCEPT ![t].pc = AfterSendPc]
    /\ UNCHANGED <<statusArray, parsed, data, consecutive_failures,
                   last_update_success, base_url, callback, notifyLog,
                   refreshLog, hass>>

\* the request of task t that awaits its response
Awaited(t) == CHOOSE k \in inflight : reqs[k].task = t

\* the response (or the network failure) reaches the suspended task
Arrive(t, op) ==
    /\ tasks[t].pc = "await"
    /\ tasks[t].op = op
    /\ \E k \in inflight : reqs[k].task = t
    /\ inflight' = inflight \ {Awaited(t)}

\* the task with the outcome it has just received added to its history
Got(task, outcome) == [task EXCEPT !.outcomes = Append(@, outcome)]

SetRouteRecv(t, outcome) ==
    /\ Arrive(t, "set_route")
    /\ LET r == SetRouteOnOutcome(outcome)
       IN tasks' = [tasks EXCEPT ![t] =
                       IF r.notify
                       THEN [Got(@, outcome) EXCEPT !.pc = "notify",
                                                    !.pending = Some(r.result)]
                       ELSE Finish(Got(@, outcome), r.result)]
    /\ UNCHANGED <<statusArray, parsed, data, consecutive_failures,
                   last_update_success, base_url, callback, notifyLog, reqs,
                   refreshLog, hass>>

SetAllRecv(t, outcome) ==
    /\ Arrive(t, "set_all_to_input")
    /\ LET r == SetRouteOnOutcome(outcome)
       IN tasks' = [tasks EXCEPT ![t] =
                       IF r.notify
                       THEN [Got(@, outcome) EXCEPT !.pc = "notify"]
                       ELSE SetAllLoop(
                                [Got(@, outcome) EXCEPT !.errors =
                                              Append(@, SetAllErrorEntry(
                                                  tasks[t].idx, r.result.exc)),
                                          !.idx = @ + 1])]
    /\ UNCHANGED <<statusArray, parsed, data, consecutive_failures,
                   last_update_success, base_url, callback, notifyLog, reqs,
                   refreshLog, hass>>

PresetRecv(t, outcome) ==
    /\ Arrive(t, "set_splice_and_video")
    /\ LET exc == PresetOnOutcome(tasks[t].idx, tasks[t].half, outcome)
           next == PresetAdvance(tasks[t].idx, tasks[t].half)
       IN tasks' = [tasks EXCEPT ![t] =
                       IF exc # NoExc THEN Finish(Got(@, outcome), Raise(exc))
                       ELSE IF PresetLoopOver(next.idx)
                       THEN [Got(@, outcome) EXCEPT !.pc = "notify"]
                       ELSE [Got(@, outcome) EXCEPT !.pc = "send",
                                                    !.idx = next.idx,
                                                    !.half = next.half]]
    /\ UNCHANGED <<statusArray, parsed, data, consecutive_failures,
                   last_update_success, base_url, callback, notifyLog, reqs,
                   refreshLog, hass>>

\* mutant: clearing the videowall also drops the cached snapshot
ClearRecv_DropsSnapshot(t, outcome) ==
    /\ Arrive(t, "clear_videowall_mode")
    /\ tasks' = [tasks EXCEPT ![t] =
                    Finish(Got(@, outcome), ClearOnOutcome(outcome))]
    /\ data' = None
    /\ UNCHANGED <<statusArray, parsed, consecutive_failures,
                   last_update_success, base_url, callback, notifyLog, reqs,
                   refreshLog, hass>>

ClearRecv(t, outcome) ==
    /\ Arrive(t, "clear_videowall_mode")
    /\ tasks' = [tasks EXCEPT ![t] =
                    Finish(Got(@, outcome), ClearOnOutcome(outcome))]
    /\ UNCHANGED <<statusArray, parsed, data, consecutive_failures,
                   last_update_success, base_url, callback, notifyLog, reqs,
                   refreshLog, hass>>

\* mutant: what the callback raises leaves notify_change and ends the operation
NotifyChange_PropagatesCallbackError(t) ==
    /\ tasks[t].pc = "notify"
    /\ notifyLog' = Append(notifyLog, [task |-> t, op |-> tasks[t].op,
                                       cb |-> callback,
                                       after |-> Len(reqs)])
    /\ tasks' = [tasks EXCEPT ![t] =
                    IF callback = Some("raises")
                    THEN Finish(@, Raise(Exc("RuntimeError", "callback", "")))
                    ELSE CASE @.op = "set_route" -> Finish(@, @.pending[1])
                           [] @.op = "set_all_to_input" ->
                                SetAllLoop([@ EXCEPT !.idx = @ + 1])
                           [] @.op = "set_splice_and_video" ->
                                Finish(@, Return(PyNone))]
    /\ UNCHANGED <<statusArray, parsed, data, consecutive_failures,
                   last_update_success, base_url, callback, reqs, inflight,
                   refreshLog, hass>>

\* notify_change: the registered callback, if any, runs once; what it raises
\* is caught and logged
NotifyChange(t) ==
    /\ tasks[t].pc = "notify"
    /\ notifyLog' = Append(notifyLog, [task |-> t, op |-> tasks[t].op,
                                       cb |-> callback,
                                       after |-> Len(reqs)])
    /\ tasks' = [tasks EXCEPT ![t] =
                    CASE @.op = "set_route" -> Finish(@, @.pending[1])
                      [] @.op = "set_all_to_input" ->
                           SetAllLoop([@ EXCEPT !.idx = @ + 1])
                      [] @.op = "set_splice_and_video" -> Finish(@, Return(PyNone))]
    /\ UNCHANGED <<statusArray, parsed, data, consecutive_failures,
                   last_update_success, base_url, callback, reqs, inflight,
                   refreshLog, hass>>

---------------------------------------------------------------------------
(* The client alone: one caller runs one operation *)

InitClient ==
    /\ statusArray = <<>>
    /\ parsed = None
    /\ data = None
    /\ consecutive_failures = 0
    /\ last_update_success = TRUE
    /\ base_url \in {NormalizeBaseUrl(u) : u \in BaseUrls}
    /\ callback \in {None, Some("ok"), Some("raises")}
    /\ notifyLog = <<>>
    /\ reqs = <<>>
    /\ inflight = {}
    /\ tasks = [t \in {"caller"} |-> IdleTask]
    /\ refreshLog = <<>>
    /\ hass = NoHost

NextClient ==
    \/ \E t \in Tasks, i \in 1..MaxPort, o \in 1..MaxPort : CallSetRoute(t, i, o)
    \/ \E t \in Tasks, i \in 1..MaxPort, n \in 0..MaxOutputs :
           CallSetAllToInput(t, i, n)
    \/ \E t \in Tasks : CallSetSpliceAndVideo(t)
    \/ \E t \in Tasks : CallClearVideowallMode(t)
    \/ \E t \in Tasks : Send(t)
    \/ \E t \in Tasks, outcome \in CommandOutcomes : SetRouteRecv(t, outcome)
    \/ \E t \in Tasks, outcome \in CommandOutcomes : SetAllRecv(t, outcome)
    \/ \E t \in Tasks, outcome \in CommandOutcomes : PresetRecv(t, outcome)
    \/ \E t \in Tasks, outcome \in CommandOutcomes : ClearRecv(t, outcome)
    \/ \E t \in Tasks : NotifyChange(t)

SpecClient == InitClient /\ [][NextClient]_vars

---------------------------------------------------------------------------
(* The parser and the refresh that stores what it produced *)

\* raw values a device reports: 0-indexed inputs and the disconnected value
RawValues == {0, 1, DISCONNECTED_VALUE - 1, DISCONNECTED_VALUE}

RECURSIVE SeqsUpTo(_, _)
SeqsUpTo(S, n) ==
    IF n = 0 THEN {<<>>}
    ELSE LET shorter == SeqsUpTo(S, n - 1)
         IN shorter \cup {Append(q, x) : q \in shorter, x \in S}

StatusArrays == SeqsUpTo(RawValues, MaxOutputs)

\* StateParser.parse_status_array applied to the device's array
ParseStatus ==
    /\ parsed = None
    /\ parsed' = Some(parse_status_array(statusArray))
    /\ UNCHANGED <<statusArray, data, consecutive_failures, last_update_success,
                   base_url, callback, notifyLog, reqs, inflight, tasks,
                   refreshLog, hass>>

\* a refresh starts (timer tick or request): _async_update_data is entered
CallRefresh(t) ==
    /\ tasks[t].pc \in {"idle", "done"}
    /\ consecutive_failures < MaxFailures
    /\ tasks' = [tasks EXCEPT ![t] =
                    [IdleTask EXCEPT !.op = "refresh", !.pc = "send"]]
    /\ UNCHANGED <<statusArray, parsed, data, consecutive_failures,
                   last_update_success, base_url, callback, notifyLog, reqs,
                   inflight, refreshLog, hass>>

\* mutant: a failed refresh drops the cached snapshot
RefreshRecv_DropsSnapshot(t, outcome) ==
    /\ Arrive(t, "refresh")
    /\ LET r == AsyncUpdateData(outcome, consecutive_failures)
       IN /\ consecutive_failures' = r.failures
          /\ last_update_success' = (r.result.kind = "return")
          /\ data' = IF r.result.kind = "return" THEN Some(r.result.value)
                     ELSE None
          /\ tasks' = [tasks EXCEPT ![t] =
                          Finish([Got(@, outcome) EXCEPT !.logged = r.logged],
                                 r.result)]
          /\ refreshLog' = Append(refreshLog,
                                  [ok |-> r.result.kind = "return",
                                   value |-> r.result.value])
    /\ UNCHANGED <<statusArray, parsed, base_url, callback, notifyLog, reqs, hass>>

\* the status response arrives: _async_update_data runs to its end, and the
\* host's update coordinator stores the data it returned (or, on
\* UpdateFailed, keeps the old data and clears last_update_success)
RefreshRecv(t, outcome) ==
    /\ Arrive(t, "refresh")
    /\ LET r == AsyncUpdateData(outcome, consecutive_failures)
       IN /\ consecutive_failures' = r.failures
          /\ last_update_success' = (r.result.kind = "return")
          /\ data' = IF r.result.kind = "return" THEN Some(r.result.value)
                     ELSE data
          /\ tasks' = [tasks EXCEPT ![t] =
                          Finish([Got(@, outcome) EXCEPT !.logged = r.logged],
                                 r.result)]
          /\ refreshLog' = Append(refreshLog,
                                  [ok |-> r.result.kind = "return",
                                   value |-> r.result.value])
    /\ UNCHANGED <<statusArray, parsed, base_url, callback, notifyLog, reqs, hass>>

InitParse ==
    /\ statusArray \in StatusArrays
    /\ parsed = None
    /\ data = None
    /\ consecutive_failures = 0
    /\ last_update_success = TRUE
    /\ base_url \in {NormalizeBaseUrl(u) : u \in BaseUrls}
    /\ callback = None
    /\ notifyLog = <<>>
    /\ reqs = <<>>
    /\ inflight = {}
    /\ tasks = [t \in {"poller"} |-> IdleTask]
    /\ refreshLog = <<>>
    /\ hass = NoHost

\* one refresh per behaviour: the request log stays finite
NextParse ==
    \/ ParseStatus
    \/ \E t \in Tasks : reqs = <<>> /\ CallRefresh(t)
    \/ \E t \in Tasks : Send(t)
    \/ \E t \in Tasks, outcome \in StatusOutcomes(statusArray) :
           RefreshRecv(t, outcome)

SpecParse == InitParse /\ [][NextParse]_vars

---------------------------------------------------------------------------
(* Claims about the parser *)

\* the entry the claims expect for raw value raw
ExpectedInput(raw) == IF raw = 65535 THEN None ELSE Some(raw + 1)

\* whether task t has completed a refresh that fetched a JSON array
FetchedArray(t) ==
    /\ tasks[t].op = "refresh"
    /\ tasks[t].pc = "done"
    /\ tasks[t].result[1].kind = "return"
    /\ tasks[t].outcomes[1].body.json # None
    /\ tasks[t].outcomes[1].body.json[1].t = "list"

\* C1: for every raw status array A and every k in 1..len(A), the parsed
\* entry for output k has raw_value = A[k-1] and input_number = null iff
\* A[k-1] = 65535, otherwise A[k-1] + 1; and get_output_state(k) reports the
\* same values once the array has been fetched and stored as the snapshot.
C1_ParseThenRead ==
    /\ parsed # None =>
           \A k \in 1..Len(statusArray) :
               /\ k \in DOMAIN parsed[1].outputs
               /\ parsed[1].outputs[k].raw_value = statusArray[k]
               /\ (parsed[1].outputs[k].input_number = None
                       <=> statusArray[k] = 65535)
               /\ parsed[1].outputs[k].input_number = ExpectedInput(statusArray[k])
    /\ \A t \in Tasks :
           FetchedArray(t) =>
               \A k \in 1..Len(statusArray) :
                   get_output_state(data, k) =
                       [input |-> ExpectedInput(statusArray[k]),
                        raw_value |-> statusArray[k]]

\* C1 witness: an array with a disconnected and a connected output has been
\* parsed, fetched and stored
C1_Witness ==
    /\ parsed # None
    /\ \E t \in Tasks : FetchedArray(t)
    /\ \E j, k \in 1..Len(statusArray) :
           statusArray[j] = 65535 /\ statusArray[k] # 65535

\* C2: the parsed MatrixState of an array of length N has exactly the keys
\* 1..N, each entry's output_number equals its key, and total_outputs = N.
C2_KeysOneToN ==
    parsed # None =>
        /\ DOMAIN parsed[1].outputs = 1..Len(statusArray)
        /\ \A k \in DOMAIN parsed[1].outputs :
               parsed[1].outputs[k].output_number = k
        /\ total_outputs(parsed[1]) = Len(statusArray)

\* C2 witness: an array of at least two elements has been parsed
C2_Witness == parsed # None /\ Len(statusArray) >= 2

---------------------------------------------------------------------------
(* Claims about the client's operations *)

\* the requests task t has sent, in order
RequestsOf(t) == SelectSeq(reqs, LAMBDA r : r.task = t)

\* the notify_change calls task t has made, in order
NotificationsOf(t) == SelectSeq(notifyLog, LAMBDA n : n.task = t)

\* the notify_change calls of task t that ran a registered callback
CallbackRunsOf(t) == SelectSeq(notifyLog, LAMBDA n : n.task = t /\ n.cb # None)

\* the query parameters a request carries, passed as params or in the URL
QueryOf(req) ==
    IF req.params # None THEN req.params[1] ELSE ParseQuery(UrlQueryString(req.url))

\* a command request succeeded: HTTP 200 with a parseable body
Succeeded(outcome) ==
    outcome.kind = "http" /\ outcome.status = 200 /\ outcome.body.json # None

Is200(outcome) == outcome.kind = "http" /\ outcome.status = 200

Done(t) == tasks[t].pc = "done"

Returned(t) == Done(t) /\ tasks[t].result[1].kind = "return"

Raised(t) == Done(t) /\ tasks[t].result[1].kind = "raise"

RaisedClass(t, cls) == Raised(t) /\ tasks[t].result[1].exc.cls = cls

\* the prm string the claims expect for 1-indexed ports (i, o)
ExpectedRoutePrm(i, o) == DigitStr(i - 1) \o "," \o DigitStr(o - 1)

\* C3: set_route(i, o) issues exactly one request, to the command endpoint,
\* with cmd = "o2ox" and prm = "<i-1>,<o-1>".
C3_SetRouteRequest ==
    \A t \in Tasks :
        tasks[t].op = "set_route" =>
            /\ Len(RequestsOf(t)) = (IF tasks[t].pc = "send" THEN 0 ELSE 1)
            /\ \A k \in 1..Len(RequestsOf(t)) :
                   /\ RequestsOf(t)[k].req.url = base_url \o "get_json_cmd.php"
                   /\ QueryOf(RequestsOf(t)[k].req) =
                          [cmd |-> "o2ox",
                           prm |-> ExpectedRoutePrm(tasks[t].input_port,
                                                    tasks[t].output_port)]

\* C3 witness: set_route(3, 5) has completed, having sent prm = "2,4"
C3_Witness ==
    \E t \in Tasks :
        /\ tasks[t].op = "set_route" /\ Done(t)
        /\ tasks[t].input_port = 3 /\ tasks[t].output_port = 5
        /\ RequestsOf(t)[1].req.params[1].prm = "2,4"

\* C4: set_route invokes the change callback exactly once and returns the
\* response body iff its request succeeded (HTTP 200, parseable body); when
\* the request fails (network error, timeout, 5xx, 4xx, unparseable body) it
\* raises a command-class error wrapping the cause and does not notify.
C4_SetRouteOutcome ==
    \A t \in Tasks :
        (tasks[t].op = "set_route" /\ Done(t)) =>
            LET outcome == tasks[t].outcomes[1]
            IN IF Succeeded(outcome)
               THEN /\ Returned(t)
                    /\ tasks[t].result[1].value = outcome.body.json[1]
                    /\ Len(NotificationsOf(t)) = 1
               ELSE /\ RaisedClass(t, "CommandError")
                    /\ tasks[t].result[1].exc.cause # ""
                    /\ Len(NotificationsOf(t)) = 0

\* the 1-indexed calls of set_all_to_input that failed
FailedCalls(t) ==
    {k \in 1..Len(tasks[t].outcomes) :
         SetRouteOnOutcome(tasks[t].outcomes[k]).result.kind = "raise"}

\* whether the error message names output k
NamesOutput(msg, k) == Contains(msg, "num_outputs " \o DigitStr(k) \o ":")

\* C5: set_all_to_input(i, N) calls set_route(i, o) exactly once for each
\* o = 1..N in ascending order whatever fails; it raises a command-class
\* error iff at least one call failed, and the message names exactly the
\* outputs whose call failed.
C5_SetAllToInput ==
    \A t \in Tasks :
        tasks[t].op = "set_all_to_input" =>
            /\ \A k \in 1..Len(RequestsOf(t)) :
                   /\ k <= tasks[t].num_outputs
                   /\ RequestsOf(t)[k].req =
                          SetRouteRequest(base_url, tasks[t].input_port, k)
                   /\ QueryOf(RequestsOf(t)[k].req).prm =
                          ExpectedRoutePrm(tasks[t].input_port, k)
            /\ Done(t) =>
                   /\ Len(RequestsOf(t)) = tasks[t].num_outputs
                   /\ Len(tasks[t].outcomes) = tasks[t].num_outputs
                   /\ Raised(t) <=> FailedCalls(t) # {}
                   /\ Raised(t) =>
                          /\ RaisedClass(t, "CommandError")
                          /\ \A k \in 1..tasks[t].num_outputs :
                                 NamesOutput(tasks[t].result[1].exc.msg, k)
                                     <=> k \in FailedCalls(t)

\* C5 witness: of three outputs the first and the last failed, the second
\* succeeded, and the run went on to the end
C5_Witness ==
    \E t \in Tasks :
        /\ tasks[t].op = "set_all_to_input" /\ Raised(t)
        /\ tasks[t].num_outputs = 3
        /\ FailedCalls(t) = {1, 3}

\* the literal prm and data of the four cases, as the claims give them
ExpectedPrm(c) ==
    CASE c = 1 -> "1,1,1,2,2,1," [] c = 2 -> "2,1,2,2,2,1,"
      [] c = 3 -> "3,1,3,2,2,1," [] c = 4 -> "4,1,4,2,2,1,"

ExpectedData(c) ==
    CASE c = 1 -> <<"1", "-1", "-1", "-1">> [] c = 2 -> <<"1", "2", "-1", "-1">>
      [] c = 3 -> <<"1", "2", "3", "-1">> [] c = 4 -> <<"1", "2", "3", "4">>

\* request r is the command half of case c
IsCmdOfCase(r, c) ==
    /\ EndsWith(UrlPath(r.req.url), "get_json_cmd.php")
    /\ QueryOf(r.req) = [cmd |-> "splice", prm |-> ExpectedPrm(c)]

\* request r is the data half of case c (whatever the JSON spacing)
IsDataOfCase(r, c) ==
    /\ EndsWith(UrlPath(r.req.url), "get_json_splice.php")
    /\ DOMAIN QueryOf(r.req) = {"splice"}
    /\ \/ Contains(QueryOf(r.req).splice,
                   "[" \o Join(QuoteAll(ExpectedData(c)), ", ") \o "]")
       \/ Contains(QueryOf(r.req).splice,
                   "[" \o Join(QuoteAll(ExpectedData(c)), ",") \o "]")

\* the k-th request of the preset is the one the fixed order puts there
IsKthOfPreset(r, k) ==
    IF k % 2 = 1 THEN IsCmdOfCase(r, (k + 1) \div 2) ELSE IsDataOfCase(r, k \div 2)

\* the requests of task t that await their response
InFlightOf(t) == {k \in inflight : reqs[k].task = t}

\* C6: when every response is HTTP 200, set_splice_and_video issues exactly
\* 8 requests in the order cmd(1), data(1), ..., cmd(4), data(4), each only
\* after the response to the previous one has been received.
C6_PresetOrder ==
    \A t \in Tasks :
        tasks[t].op = "set_splice_and_video" =>
            /\ Cardinality(InFlightOf(t)) <= 1
            /\ Len(tasks[t].outcomes) =
                   Len(RequestsOf(t)) - Cardinality(InFlightOf(t))
            /\ tasks[t].pc = "send" => InFlightOf(t) = {}
            /\ (\A j \in 1..Len(tasks[t].outcomes) : Is200(tasks[t].outcomes[j])) =>
                   /\ \A k \in 1..Len(RequestsOf(t)) :
                          IsKthOfPreset(RequestsOf(t)[k], k)
                   /\ Len(RequestsOf(t)) <= 8
                   /\ Done(t) => Len(RequestsOf(t)) = 8

\* C6 witness: a run in which all eight responses were HTTP 200 has ended
C6_Witness ==
    \E t \in Tasks :
        /\ tasks[t].op = "set_splice_and_video" /\ Done(t)
        /\ Len(tasks[t].outcomes) = 8
        /\ \A j \in 1..8 : Is200(tasks[t].outcomes[j])

\* the j-th response is the first that is not HTTP 200
FirstNon200(t, j) ==
    /\ j \in 1..Len(tasks[t].outcomes)
    /\ tasks[t].outcomes[j].kind = "http"
    /\ tasks[t].outcomes[j].status # 200
    /\ \A i \in 1..(j - 1) : Is200(tasks[t].outcomes[i])

\* C7: if the j-th request of the preset is the first to receive a non-200
\* response, exactly j requests are issued in total and the run fails with a
\* command-class error whose message identifies case ceil(j/2).
C7_PresetFailsClosed ==
    \A t \in Tasks :
        tasks[t].op = "set_splice_and_video" =>
            \A j \in 1..8 :
                FirstNon200(t, j) =>
                    /\ Len(RequestsOf(t)) = j
                    /\ RaisedClass(t, "CommandError")
                    /\ Contains(tasks[t].result[1].exc.msg,
                                "(case " \o DigitStr((j + 1) \div 2) \o ")")

\* C7 witness: the data half of case 3 (request 6) was the first non-200
C7_Witness ==
    \E t \in Tasks :
        tasks[t].op = "set_splice_and_video" /\ FirstNon200(t, 6) /\ Done(t)

\* C8: set_splice_and_video invokes the change callback exactly once, and
\* only after the eighth request has succeeded; in every run where a request
\* fails (non-200, network error, timeout) it is invoked zero times.
C8_PresetNotifiesOnce ==
    \A t \in Tasks :
        tasks[t].op = "set_splice_and_video" =>
            /\ \A n \in 1..Len(NotificationsOf(t)) :
                   /\ NotificationsOf(t)[n].cb = callback
                   /\ NotificationsOf(t)[n].after = 8
                   /\ Len(tasks[t].outcomes) = 8
                   /\ \A j \in 1..8 : Is200(tasks[t].outcomes[j])
            /\ Returned(t) =>
                   /\ Len(NotificationsOf(t)) = 1
                   /\ callback # None => Len(CallbackRunsOf(t)) = 1
            /\ ~Returned(t) => Len(NotificationsOf(t)) = 0
            /\ (\E j \in 1..Len(tasks[t].outcomes) : ~Is200(tasks[t].outcomes[j]))
                   => Raised(t) /\ Len(CallbackRunsOf(t)) = 0

\* C8 witness: a run with a registered callback has returned
C8_Witness ==
    \E t \in Tasks :
        /\ tasks[t].op = "set_splice_and_video" /\ Returned(t)
        /\ callback # None
        /\ Len(CallbackRunsOf(t)) = 1

\* the payload the claims expect for case c: x and y are integers
ExpectedPayload(c) == << [x |-> JInt(2), y |-> JInt(2), data |-> ExpectedData(c)] >>

\* C9: for each case c the command request goes to the command endpoint
\* (normalized base_url followed by get_json_cmd.php, the URL set_route uses)
\* with cmd = "splice" and the literal prm of the case, and the data request
\* carries a JSON array of one object with x = 2, y = 2 as integers and the
\* literal data of the case.
C9_PresetRequestContent ==
    \A t \in Tasks :
        tasks[t].op = "set_splice_and_video" =>
            \A k \in 1..Len(RequestsOf(t)) :
                LET r == RequestsOf(t)[k].req
                    c == (k + 1) \div 2
                IN IF k % 2 = 1
                   THEN /\ UrlPath(r.url) = base_url \o "get_json_cmd.php"
                        /\ UrlPath(r.url) = UrlPath(SetRouteRequest(base_url, 1, 1).url)
                        /\ QueryOf(r) = [cmd |-> "splice", prm |-> ExpectedPrm(c)]
                   ELSE /\ DOMAIN QueryOf(r) = {"splice"}
                        /\ QueryOf(r).splice \in
                               {JsonDumpsPayload(ExpectedPayload(c), ", ", ": "),
                                JsonDumpsPayload(ExpectedPayload(c), ",", ":")}

---------------------------------------------------------------------------
(* One client shared by the videowall button, the poller and a service call: *)
(* each is a task of the same event loop, and a task suspended on a response *)
(* lets the others run                                                       *)

\* the answers kept in the concurrent specification: success and a failure
ConcCommandOutcomes == {HttpOutcome(200, JsonObjectBody), NetErrorOutcome}

ConcStatusOutcomes(status_array) ==
    {HttpOutcome(200, JsonListBody(status_array)), NetErrorOutcome}

InitConc ==
    /\ statusArray = <<0, DISCONNECTED_VALUE>>
    /\ parsed = None
    /\ data = None
    /\ consecutive_failures = 0
    /\ last_update_success = TRUE
    /\ base_url \in {NormalizeBaseUrl(u) : u \in BaseUrls}
    /\ callback = Some("ok")
    /\ notifyLog = <<>>
    /\ reqs = <<>>
    /\ inflight = {}
    /\ tasks = [t \in {"button", "poller", "service"} |-> IdleTask]
    /\ refreshLog = <<>>
    /\ hass = NoHost

\* the poller ticks once, and the model stops issuing requests once
\* MaxRequests have been sent
NextConc ==
    \/ \E t \in {"button", "service"} : CallSetSpliceAndVideo(t)
    \/ CallSetRoute("service", 1, 1)
    \/ CallClearVideowallMode("service")
    \/ tasks["poller"].pc = "idle" /\ CallRefresh("poller")
    \/ \E t \in Tasks : Len(reqs) < MaxRequests /\ Send(t)
    \/ \E t \in Tasks, outcome \in ConcCommandOutcomes : SetRouteRecv(t, outcome)
    \/ \E t \in Tasks, outcome \in ConcCommandOutcomes : PresetRecv(t, outcome)
    \/ \E t \in Tasks, outcome \in ConcCommandOutcomes : ClearRecv(t, outcome)
    \/ \E t \in Tasks, outcome \in ConcStatusOutcomes(statusArray) :
           RefreshRecv(t, outcome)
    \/ \E t \in Tasks : NotifyChange(t)

SpecConc == InitConc /\ [][NextConc]_vars

\* C10: in every interleaving of a running set_splice_and_video with the
\* poller's refresh and with other command issuers on the same client, no
\* other device request is sent between the first and the last request of
\* the preset sequence.
C10_PresetNotInterleaved ==
    \A i, k \in 1..Len(reqs) :
        (/\ i < k
         /\ reqs[i].op = "set_splice_and_video"
         /\ reqs[k].op = "set_splice_and_video"
         /\ reqs[i].task = reqs[k].task)
            => \A j \in i..k : reqs[j].task = reqs[i].task

---------------------------------------------------------------------------
(* The transport seen through the operations that use it: two callers, each *)
(* issuing one operation, every answer the device or the network can give   *)

\* status codes on both sides of the 400 and 500 thresholds
TransportStatuses == {200, 204, 399, 400, 404, 499, 500, 503}

\* answers to a request in the transport specification
TransportOutcomes(status_array) ==
    {TimeoutOutcome, NetErrorOutcome}
    \cup {HttpOutcome(st, b) :
              st \in TransportStatuses,
              b \in {JsonListBody(status_array), JsonObjectBody, UnparseableBody}}

\* answers to the requests of the preset: one successful answer, so that the
\* history of a run that goes on is determined by its length
TransportPresetOutcomes ==
    {TimeoutOutcome, NetErrorOutcome, HttpOutcome(200, JsonObjectBody)}
    \cup {HttpOutcome(st, b) : st \in TransportStatuses \ {200},
                               b \in {JsonObjectBody, UnparseableBody}}

\* get_status called directly (test_connection, the config flow)
CallGetStatus(t) ==
    /\ tasks[t].pc = "idle"
    /\ tasks' = [tasks EXCEPT ![t] =
                    [IdleTask EXCEPT !.op = "get_status", !.pc = "send"]]
    /\ UNCHANGED <<statusArray, parsed, data, consecutive_failures,
                   last_update_success, base_url, callback, notifyLog, reqs,
                   inflight, refreshLog, hass>>

\* mutant: a failed status request is sent once more
GetStatusRecv_RetryOnFailure(t, outcome) ==
    /\ Arrive(t, "get_status")
    /\ tasks' = [tasks EXCEPT ![t] =
                    IF GetStatusOnOutcome(outcome).kind = "raise"
                       /\ tasks[t].outcomes = <<>>
                    THEN [Got(@, outcome) EXCEPT !.pc = "send"]
                    ELSE Finish(Got(@, outcome), GetStatusOnOutcome(outcome))]
    /\ UNCHANGED <<statusArray, parsed, data, consecutive_failures,
                   last_update_success, base_url, callback, notifyLog, reqs,
                   refreshLog, hass>>

\* the status response arrives: get_status runs to its end
GetStatusRecv(t, outcome) ==
    /\ Arrive(t, "get_status")
    /\ tasks' = [tasks EXCEPT ![t] =
                    Finish(Got(@, outcome), GetStatusOnOutcome(outcome))]
    /\ UNCHANGED <<statusArray, parsed, data, consecutive_failures,
                   last_update_success, base_url, callback, notifyLog, reqs,
                   refreshLog, hass>>

InitTransport ==
    /\ statusArray = <<0, DISCONNECTED_VALUE>>
    /\ parsed = None
    /\ data = None
    /\ consecutive_failures = 0
    /\ last_update_success = TRUE
    /\ base_url \in {NormalizeBaseUrl(u) : u \in BaseUrls}
    /\ callback = None
    /\ notifyLog = <<>>
    /\ reqs = <<>>
    /\ inflight = {}
    /\ tasks = [t \in {"first", "second"} |-> IdleTask]
    /\ refreshLog = <<>>
    /\ hass = NoHost

\* the second caller issues its operation once the first one has ended
NextTransport ==
    \/ \E t \in Tasks :
           /\ t = "second" => tasks["first"].pc = "done"
           /\ CallGetStatus(t)
    \/ \E i, o \in {1, MaxPort} : CallSetRoute("first", i, o)
    \/ tasks["first"].pc = "done" /\ CallSetRoute("second", 1, 1)
    \/ CallSetSpliceAndVideo("first")
    \/ \E t \in Tasks :
           /\ t = "second" => tasks["first"].pc = "done"
           /\ CallClearVideowallMode(t)
    \/ \E t \in Tasks : Send(t)
    \/ \E t \in Tasks, outcome \in TransportOutcomes(statusArray) :
           GetStatusRecv(t, outcome)
    \/ \E t \in Tasks, outcome \in TransportOutcomes(statusArray) :
           SetRouteRecv(t, outcome)
    \/ \E t \in Tasks, outcome \in TransportPresetOutcomes :
           PresetRecv(t, outcome)
    \/ \E t \in Tasks, outcome \in TransportOutcomes(statusArray) :
           ClearRecv(t, outcome)
    \/ \E t \in Tasks : NotifyChange(t)

SpecTransport == InitTransport /\ [][NextTransport]_vars

---------------------------------------------------------------------------
(* The poller: the timer and on-demand requests both run _async_update_data *)
(* on the one coordinator, while a writer issues commands on the client     *)

\* answers to the status request: every error class, a status array, a JSON
\* object, and bodies get_status passes through without parsing
PollStatusOutcomes(status_array) ==
    {TimeoutOutcome, NetErrorOutcome,
     HttpOutcome(200, JsonListBody(status_array)),
     HttpOutcome(200, JsonObjectBody),
     HttpOutcome(200, UnparseableBody),
     HttpOutcome(404, JsonObjectBody),
     HttpOutcome(500, UnparseableBody)}

InitPoll ==
    /\ statusArray = <<0, DISCONNECTED_VALUE>>
    /\ parsed = None
    /\ data = None
    /\ consecutive_failures = 0
    /\ last_update_success = TRUE
    /\ base_url \in {NormalizeBaseUrl(u) : u \in BaseUrls}
    /\ callback = None
    /\ notifyLog = <<>>
    /\ reqs = <<>>
    /\ inflight = {}
    /\ tasks = [t \in {"timer", "request"} |-> IdleTask]
    /\ refreshLog = <<>>
    /\ hass = NoHost

\* the model stops starting refreshes once MaxRefreshes status requests have
\* been sent
NextPoll ==
    \/ \E t \in Tasks : Len(reqs) < MaxRefreshes /\ CallRefresh(t)
    \/ \E t \in Tasks : Len(reqs) < MaxRefreshes /\ Send(t)
    \/ \E t \in Tasks, outcome \in PollStatusOutcomes(statusArray) :
           RefreshRecv(t, outcome)

SpecPoll == InitPoll /\ [][NextPoll]_vars

---------------------------------------------------------------------------
(* The poller next to a writer: the writer's commands run on the client    *)
(* while the poller refreshes                                               *)

FrameStatusOutcomes(status_array) ==
    {NetErrorOutcome, HttpOutcome(200, JsonListBody(status_array))}

InitFrame ==
    /\ statusArray = <<0, DISCONNECTED_VALUE>>
    /\ parsed = None
    /\ data = None
    /\ consecutive_failures = 0
    /\ last_update_success = TRUE
    /\ base_url \in {NormalizeBaseUrl(u) : u \in BaseUrls}
    /\ callback = None
    /\ notifyLog = <<>>
    /\ reqs = <<>>
    /\ inflight = {}
    /\ tasks = [t \in {"poller", "writer"} |-> IdleTask]
    /\ refreshLog = <<>>
    /\ hass = NoHost

\* the poller refreshes twice at most, and the model stops issuing requests
\* once MaxRequests have been sent
NextFrame ==
    \/ Len(refreshLog) < 2 /\ CallRefresh("poller")
    \/ CallSetRoute("writer", 1, 1)
    \/ CallSetAllToInput("writer", 1, 2)
    \/ CallSetSpliceAndVideo("writer")
    \/ CallClearVideowallMode("writer")
    \/ \E t \in Tasks : Len(reqs) < MaxRequests /\ Send(t)
    \/ \E t \in Tasks, outcome \in FrameStatusOutcomes(statusArray) :
           RefreshRecv(t, outcome)
    \/ \E t \in Tasks, outcome \in ConcCommandOutcomes : SetRouteRecv(t, outcome)
    \/ \E t \in Tasks, outcome \in ConcCommandOutcomes : SetAllRecv(t, outcome)
    \/ \E t \in Tasks, outcome \in ConcCommandOutcomes : PresetRecv(t, outcome)
    \/ \E t \in Tasks, outcome \in ConcCommandOutcomes : ClearRecv(t, outcome)
    \/ \E t \in Tasks : NotifyChange(t)

SpecFrame == InitFrame /\ [][NextFrame]_vars

---------------------------------------------------------------------------
(* Claims about the poller *)

\* the answer task t received last
LastOutcome(t) == tasks[t].outcomes[Len(tasks[t].outcomes)]

\* the refreshes that have entered _async_update_data and not yet left it
RefreshesInFlight ==
    {t \in Tasks : tasks[t].op = "refresh" /\ tasks[t].pc = "await"}

\* C11: at most one refresh (_async_update_data) is in flight at any time: a
\* refresh requested on demand while a timer-driven one is running (or the
\* reverse) is deferred or ignored, so two status fetches never race.
C11_OneRefreshInFlight == Cardinality(RefreshesInFlight) <= 1

\* the number of failed refreshes at the end of the history
RECURSIVE TrailingFailures(_)
TrailingFailures(log) ==
    IF log = <<>> \/ log[Len(log)].ok THEN 0
    ELSE 1 + TrailingFailures(SubSeq(log, 1, Len(log) - 1))

\* C12: after any sequence of refreshes, succeeding or failing with any
\* error class, consecutive_failures equals the number of failed refreshes
\* since the most recent successful one.
C12_FailureCounter == consecutive_failures = TrailingFailures(refreshLog)

\* the position in the history of the most recent successful refresh, 0 if none
LastSuccess(log) ==
    IF \E k \in 1..Len(log) : log[k].ok
    THEN CHOOSE k \in 1..Len(log) :
             log[k].ok /\ \A j \in (k + 1)..Len(log) : ~log[j].ok
    ELSE 0

\* C13: once a refresh has succeeded, any number of consecutive failed
\* refreshes leaves the snapshot unchanged: get_all_outputs and
\* get_output_state keep returning the data of the last successful refresh,
\* while is_connected is false.
C13_StaleSnapshotKept ==
    LET k == LastSuccess(refreshLog)
    IN k > 0 =>
           /\ data = Some(refreshLog[k].value)
           /\ get_all_outputs(data) = get_all_outputs(Some(refreshLog[k].value))
           /\ \A n \in 1..Len(statusArray) :
                  get_output_state(data, n) =
                      get_output_state(Some(refreshLog[k].value), n)
           /\ k < Len(refreshLog) =>
                  ~is_connected(last_update_success, data)

\* C13 witness: three failures in a row after a refresh that stored outputs
C13_Witness ==
    /\ LastSuccess(refreshLog) > 0
    /\ TrailingFailures(refreshLog) >= 3
    /\ get_all_outputs(data) # EmptyDict
    /\ get_output_state(data, 1) = [input |-> Some(1), raw_value |-> 0]
    /\ ~is_connected(last_update_success, data)

\* C14: is_connected is true iff the most recent refresh succeeded and a
\* snapshot exists; it is true exactly when consecutive_failures is 0 and at
\* least one refresh has completed successfully.
C14_IsConnected ==
    /\ is_connected(last_update_success, data) <=>
           /\ refreshLog # <<>>
           /\ refreshLog[Len(refreshLog)].ok
           /\ data # None
    /\ is_connected(last_update_success, data) <=>
           /\ consecutive_failures = 0
           /\ LastSuccess(refreshLog) > 0

\* C14 witness: connected again after a failure that followed a success
C14_Witness ==
    /\ is_connected(last_update_success, data)
    /\ Len(refreshLog) >= 3
    /\ refreshLog[1].ok /\ ~refreshLog[2].ok

\* C15: every failure of the status fetch inside a refresh, whatever its
\* class, is reported to the host as an UpdateFailed and as nothing else, and
\* a later successful refresh restores is_connected.
C15_FailureIsUpdateFailed ==
    /\ \A t \in Tasks :
           (tasks[t].op = "refresh" /\ Done(t)) =>
               /\ Raised(t) => RaisedClass(t, "UpdateFailed")
               /\ GetStatusOnOutcome(LastOutcome(t)).kind = "raise" =>
                      /\ RaisedClass(t, "UpdateFailed")
                      /\ tasks[t].result[1].exc.cause =
                             GetStatusOnOutcome(LastOutcome(t)).exc.cls
    /\ (refreshLog # <<>> /\ refreshLog[Len(refreshLog)].ok) =>
           is_connected(last_update_success, data)

\* C15 witness: failures of both error classes were reported, and the
\* refresh after them succeeded
C15_Witness ==
    /\ Len(refreshLog) >= 3
    /\ ~refreshLog[1].ok /\ ~refreshLog[2].ok
    /\ refreshLog[Len(refreshLog)].ok
    /\ is_connected(last_update_success, data)
    /\ \E t \in Tasks :
           /\ tasks[t].op = "refresh" /\ RaisedClass(t, "UpdateFailed")
           /\ tasks[t].result[1].exc.cause = "InvalidResponseError"

\* C16: the snapshot and the failure counter are changed only by the refresh
\* operation: no step of set_route, set_all_to_input, set_splice_and_video
\* or clear_videowall_mode, succeeding or failing, changes either.
C16_OnlyRefreshWrites ==
    [][refreshLog' = refreshLog =>
           /\ data' = data
           /\ consecutive_failures' = consecutive_failures]_vars

\* C16 witness: a command has ended between two refreshes, with a snapshot
\* cached and a failure counted
C16_Witness ==
    /\ data # None
    /\ consecutive_failures = 1
    /\ Done("writer")
    /\ Len(reqs) >= 3
    /\ reqs[1].op = "refresh"
    /\ reqs[2].op = "clear_videowall_mode"
    /\ reqs[3].op = "refresh"

---------------------------------------------------------------------------
(* Claims about the transport *)

\* task t ended with an error of class cls: raised as such by get_status,
\* wrapped as the cause of the command-class error by set_route
FailedWithClass(t, cls) ==
    /\ Raised(t)
    /\ IF tasks[t].op = "set_route"
       THEN tasks[t].result[1].exc.cause = cls
       ELSE tasks[t].result[1].exc.cls = cls

\* C17: a transport request that receives an HTTP 5xx status fails with a
\* connection-class error, and one that receives an HTTP 4xx status fails
\* with an invalid-response error, whether or not the body is JSON.
C17_StatusClassification ==
    \A t \in Tasks :
        (/\ tasks[t].op \in {"get_status", "set_route"}
         /\ Done(t)
         /\ LastOutcome(t).kind = "http") =>
            /\ LastOutcome(t).status \in 500..599 =>
                   FailedWithClass(t, "ConnectionError")
            /\ LastOutcome(t).status \in 400..499 =>
                   FailedWithClass(t, "InvalidResponseError")

\* C17 witness: a 503 with a body that is not JSON and a 404 with a JSON
\* body have both been received
C17_Witness ==
    /\ tasks["first"].op = "get_status" /\ Done("first")
    /\ LastOutcome("first").status = 503
    /\ LastOutcome("first").body.json = None
    /\ tasks["second"].op = "set_route" /\ Done("second")
    /\ LastOutcome("second").status = 404
    /\ LastOutcome("second").body.json # None

\* C18: a transport request that receives HTTP 200 with a body that is not
\* parseable as JSON fails with an invalid-response error and returns no
\* result to its caller.
C18_UnparseableBodyFails ==
    \A t \in Tasks :
        (/\ tasks[t].op \in {"get_status", "set_route"}
         /\ Done(t)
         /\ Is200(LastOutcome(t))
         /\ LastOutcome(t).body.json = None) =>
            FailedWithClass(t, "InvalidResponseError")

\* C19: a network-level failure or a timeout during get_status, during
\* either half of any case of set_splice_and_video, or during
\* clear_videowall_mode reaches the caller as a connection-class error, not
\* as a command-class error.
C19_NetworkFailureClass ==
    \A t \in Tasks :
        (/\ tasks[t].op \in {"get_status", "set_splice_and_video",
                             "clear_videowall_mode"}
         /\ Done(t)
         /\ LastOutcome(t).kind \in {"timeout", "neterr"}) =>
            RaisedClass(t, "ConnectionError")

\* C20: each call of get_status, set_route or clear_videowall_mode sends
\* exactly one device request whatever the outcome, and after a failed
\* request nothing more is sent until a new operation is issued.
C20_NoRetry ==
    /\ \A t \in Tasks :
           /\ tasks[t].pc = "idle" => RequestsOf(t) = <<>>
           /\ tasks[t].op \in {"get_status", "set_route", "clear_videowall_mode"} =>
                  /\ Len(RequestsOf(t)) = (IF tasks[t].pc = "send" THEN 0 ELSE 1)
                  /\ Done(t) => /\ InFlightOf(t) = {}
                                /\ Len(tasks[t].outcomes) = 1
    /\ (\A t \in Tasks : tasks[t].op # "set_splice_and_video") =>
           Len(reqs) = Cardinality({t \in Tasks :
                                        tasks[t].pc \in {"await", "notify", "done"}})

\* C20 witness: a failed get_status was followed by a new operation, and two
\* requests have been sent in all
C20_Witness ==
    /\ tasks["first"].op = "get_status" /\ Raised("first")
    /\ tasks["second"].op = "clear_videowall_mode" /\ Raised("second")
    /\ Len(reqs) = 2

---------------------------------------------------------------------------
(* The generic splice setter: SplicePayloadBuilder (src/api.py) and the two *)
(* service handlers that call api.set_splice (src/services.py)              *)

\* urllib.parse.quote(c, safe="") of one character of a splice payload
QuoteChar(c) ==
    CASE c = "[" -> "%5B" [] c = "]" -> "%5D" [] c = "{" -> "%7B"
      [] c = "}" -> "%7D" [] c = "\"" -> "%22" [] c = ":" -> "%3A"
      [] c = "," -> "%2C" [] c = " " -> "%20" [] OTHER -> c

\* urllib.parse.quote(s, safe="")
RECURSIVE UrlQuote(_)
UrlQuote(s) ==
    IF Len(s) = 0 THEN ""
    ELSE QuoteChar(SubSeq(s, 1, 1)) \o UrlQuote(SubSeq(s, 2, Len(s)))

\* ["-1"] * n
Repeat(x, n) == [k \in 1..n |-> x]

\* SplicePayloadBuilder.build_payload; data_arg is None or Some(list)
build_payload(num_inputs, num_outputs, data_arg) ==
    IF data_arg # None /\ Len(data_arg[1]) # num_inputs * num_outputs
    THEN Raise(Exc("ValueError",
                   "Data length must be " \o IntToStr(num_inputs * num_outputs)
                       \o " (num_inputs * num_outputs), got "
                       \o IntToStr(Len(data_arg[1])), ""))
    ELSE LET d == IF data_arg = None
                  THEN Repeat("-1", num_inputs * num_outputs)
                  ELSE data_arg[1]
             payload == << [x |-> JInt(2), y |-> JInt(2), data |-> d] >>
             json_str == JsonDumpsPayload(payload, ",", ":")
         IN Return(PyStr(UrlQuote(json_str)))

\* the attributes class HDTVMatrixApi defines
ApiAttributes ==
    {"base_url", "set_change_callback", "notify_change", "_build_headers",
     "_execute_request", "get_status", "get_status_typed", "set_route",
     "set_splice_and_video", "clear_videowall_mode", "set_all_to_input",
     "disconnect_num_outputs", "test_connection"}

\* what looking up an attribute the class does not define raises
AttributeError(name) ==
    Exc("AttributeError",
        "'HDTVMatrixApi' object has no attribute '" \o name \o "'", "")

\* the loop body of _generate_videowall_splice_data for one screen
RECURSIVE VideowallLoop(_, _, _, _, _, _)
VideowallLoop(d, screen, screens_needed, num_outputs, input_idx, start_output_idx) ==
    IF screen >= screens_needed THEN d
    ELSE LET output_idx == start_output_idx + screen
             position == (input_idx * num_outputs) + output_idx
         IN IF output_idx >= num_outputs THEN d
            ELSE VideowallLoop(
                     IF position < Len(d)
                     THEN [d EXCEPT ![position + 1] = IntToStr(input_idx)]
                     ELSE d,
                     screen + 1, screens_needed, num_outputs, input_idx,
                     start_output_idx)

\* services._generate_videowall_splice_data
generate_videowall_splice_data(num_inputs, num_outputs, input_port, grid_width, grid_height, start_output) ==
    VideowallLoop(Repeat("-1", num_inputs * num_outputs), 0,
                  grid_width * grid_height, num_outputs, input_port - 1,
                  start_output - 1)

\* a task that ran to its end without suspending
Ran(op, num_inputs, num_outputs, d, result) ==
    Finish([IdleTask EXCEPT !.op = op, !.num_inputs = num_inputs,
                            !.num_outputs = num_outputs, !.data = d],
           result)

\* SplicePayloadBuilder.build_payload called on its own
CallBuildPayload(t, num_inputs, num_outputs, d) ==
    /\ tasks[t].pc = "idle"
    /\ tasks' = [tasks EXCEPT ![t] =
                    Ran("build_payload", num_inputs, num_outputs, d,
                        build_payload(num_inputs, num_outputs, d))]
    /\ UNCHANGED <<statusArray, parsed, data, consecutive_failures,
                   last_update_success, base_url, callback, notifyLog, reqs,
                   inflight, refreshLog, hass>>

\* api.set_splice(num_inputs, num_outputs, data): the class has no such
\* attribute, so the lookup raises before anything is called
CallSetSplice(t, num_inputs, num_outputs, d) ==
    /\ tasks[t].pc = "idle"
    /\ "set_splice" \notin ApiAttributes
    /\ tasks' = [tasks EXCEPT ![t] =
                    Ran("set_splice", num_inputs, num_outputs, Some(d),
                        Raise(AttributeError("set_splice")))]
    /\ UNCHANGED <<statusArray, parsed, data, consecutive_failures,
                   last_update_success, base_url, callback, notifyLog, reqs,
                   inflight, refreshLog, hass>>

\* services.handle_set_splice with the decoded splice_data list: its own
\* length check, then api.set_splice, whose AttributeError no except clause
\* of the handler catches
HandleSetSplice(t, num_inputs, num_outputs, splice_config) ==
    /\ tasks[t].pc = "idle"
    /\ "set_splice" \notin ApiAttributes
    /\ LET expected_length == num_inputs * num_outputs
           result ==
               IF Len(splice_config) # expected_length
               THEN Raise(Exc("HomeAssistantError",
                              "splice_data must contain "
                                  \o IntToStr(expected_length) \o " elements",
                              ""))
               ELSE Raise(AttributeError("set_splice"))
       IN tasks' = [tasks EXCEPT ![t] =
                       Ran("handle_set_splice", num_inputs, num_outputs,
                           Some(splice_config), result)]
    /\ UNCHANGED <<statusArray, parsed, data, consecutive_failures,
                   last_update_success, base_url, callback, notifyLog, reqs,
                   inflight, refreshLog, hass>>

\* services.handle_set_videowall: the range checks, the generated data, then
\* api.set_splice
HandleSetVideowall(t, num_inputs, num_outputs, input_port, grid_width, grid_height, start_output) ==
    /\ tasks[t].pc = "idle"
    /\ "set_splice" \notin ApiAttributes
    /\ LET screens_needed == grid_width * grid_height
           d == generate_videowall_splice_data(
                    num_inputs, num_outputs, input_port, grid_width,
                    grid_height, start_output)
       IN tasks' = [tasks EXCEPT ![t] =
              IF input_port < 1 \/ input_port > num_inputs
              THEN Ran("handle_set_videowall", num_inputs, num_outputs, None,
                       Raise(Exc("HomeAssistantError",
                                 "Input " \o IntToStr(input_port)
                                     \o " is out of range", "")))
              ELSE IF start_output + screens_needed - 1 > num_outputs
              THEN Ran("handle_set_videowall", num_inputs, num_outputs, None,
                       Raise(Exc("HomeAssistantError",
                                 "Videowall requires "
                                     \o IntToStr(screens_needed)
                                     \o " outputs", "")))
              ELSE Ran("handle_set_videowall", num_inputs, num_outputs,
                       Some(d), Raise(AttributeError("set_splice")))]
    /\ UNCHANGED <<statusArray, parsed, data, consecutive_failures,
                   last_update_success, base_url, callback, notifyLog, reqs,
                   inflight, refreshLog, hass>>

\* the values of a splice data list
SpliceValues == {"-1", "1"}

\* data lists up to the full grid, of matching and of other lengths
SpliceData == SeqsUpTo(SpliceValues, MaxGrid * MaxGrid)

InitSplice ==
    /\ statusArray = <<>>
    /\ parsed = None
    /\ data = None
    /\ consecutive_failures = 0
    /\ last_update_success = TRUE
    /\ base_url \in {NormalizeBaseUrl(u) : u \in BaseUrls}
    /\ callback = None
    /\ notifyLog = <<>>
    /\ reqs = <<>>
    /\ inflight = {}
    /\ tasks = [t \in {"caller"} |-> IdleTask]
    /\ refreshLog = <<>>
    /\ hass = NoHost

NextSplice ==
    \/ \E t \in Tasks, ni, no \in 1..MaxGrid, d \in SpliceData \cup {<<>>} :
           CallBuildPayload(t, ni, no, IF d = <<>> THEN None ELSE Some(d))
    \/ \E t \in Tasks, ni, no \in 1..MaxGrid, d \in SpliceData :
           CallSetSplice(t, ni, no, d)
    \/ \E t \in Tasks, ni, no \in 1..MaxGrid, d \in SpliceData :
           HandleSetSplice(t, ni, no, d)
    \/ \E t \in Tasks, ni, no \in 1..MaxGrid, i \in 0..(MaxGrid + 1),
          w, h \in 1..MaxGrid, o \in 1..MaxGrid :
           HandleSetVideowall(t, ni, no, i, w, h, o)

SpecSplice == InitSplice /\ [][NextSplice]_vars

---------------------------------------------------------------------------
(* Claims about the generic splice setter *)

\* the operations through which a caller reaches the generic splice setter
SpliceSetterOps == {"set_splice", "handle_set_splice", "handle_set_videowall"}

\* the exception classes that report a wrong shape of caller-supplied data
ValidationClasses == {"ValueError", "HomeAssistantError"}

\* task t finished a splice operation that was given a data list
SpliceCall(t) ==
    /\ Done(t)
    /\ tasks[t].op \in SpliceSetterOps \cup {"build_payload"}
    /\ tasks[t].data # None

SpliceLengthMatches(t) ==
    Len(tasks[t].data[1]) = tasks[t].num_inputs * tasks[t].num_outputs

\* C21: the generic splice setter called with data whose length differs from
\* numInputs * numOutputs fails with a validation error and sends zero device
\* requests, also when it is reached through the service handlers.
C21_SpliceLengthValidated ==
    \A t \in Tasks :
        (SpliceCall(t) /\ ~SpliceLengthMatches(t)) =>
            /\ Raised(t)
            /\ tasks[t].result[1].exc.cls \in ValidationClasses
            /\ Len(RequestsOf(t)) = 0

\* the URL-encoded compact JSON of [{x: num_inputs, y: num_outputs, data: d}]
ExpectedSplicePayload(num_inputs, num_outputs, d) ==
    UrlQuote("[{" \o Quoted("x") \o ":" \o IntToStr(num_inputs) \o ","
                  \o Quoted("y") \o ":" \o IntToStr(num_outputs) \o ","
                  \o Quoted("data") \o ":[" \o Join(QuoteAll(d), ",") \o "]}]")

\* C22: for every (numInputs, numOutputs, data) with len(data) = numInputs *
\* numOutputs the payload the generic splice setter builds is the one-element
\* array [{x: numInputs, y: numOutputs, data: data}]: the builder returns it,
\* and the setter sends it as the splice parameter of its request.
C22_SplicePayload ==
    \A t \in Tasks :
        (SpliceCall(t) /\ SpliceLengthMatches(t)) =>
            LET expected == ExpectedSplicePayload(tasks[t].num_inputs,
                                                  tasks[t].num_outputs,
                                                  tasks[t].data[1])
            IN IF tasks[t].op = "build_payload"
               THEN tasks[t].result[1] = Return(PyStr(expected))
               ELSE \E k \in 1..Len(reqs) :
                        /\ reqs[k].task = t
                        /\ "splice" \in DOMAIN QueryOf(reqs[k].req)
                        /\ QueryOf(reqs[k].req)["splice"] = expected

---------------------------------------------------------------------------
(* The host's use of the client: test_connection at setup, the change      *)
(* callback it registers and clears, and the commands that notify          *)

\* mutant: only connection errors of the status fetch are caught
test_connection_CatchesConnectionOnly(outcome) ==
    LET got == GetStatusOnOutcome(outcome)
    IN IF got.kind = "return" THEN Return(PyBool(TRUE))
       ELSE IF got.exc.cls = "ConnectionError" THEN Return(PyBool(FALSE))
       ELSE got

\* test_connection from the arrival of the outcome of its status request on
test_connection(outcome) ==
    LET got == GetStatusOnOutcome(outcome)
    IN IF got.kind = "return" THEN Return(PyBool(TRUE))
       ELSE Return(PyBool(FALSE))

CallTestConnection(t) ==
    /\ tasks[t].pc = "idle"
    /\ tasks' = [tasks EXCEPT ![t] =
                    [IdleTask EXCEPT !.op = "test_connection", !.pc = "send"]]
    /\ UNCHANGED <<statusArray, parsed, data, consecutive_failures,
                   last_update_success, base_url, callback, notifyLog, reqs,
                   inflight, refreshLog, hass>>

TestConnectionRecv(t, outcome) ==
    /\ Arrive(t, "test_connection")
    /\ tasks' = [tasks EXCEPT ![t] =
                    Finish(Got(@, outcome), test_connection(outcome))]
    /\ UNCHANGED <<statusArray, parsed, data, consecutive_failures,
                   last_update_success, base_url, callback, notifyLog, reqs,
                   refreshLog, hass>>

\* mutant: a callback already registered is not replaced
set_change_callback_KeepsFirst(current, arg) ==
    IF current = None THEN arg ELSE current

\* the value of _change_callback after set_change_callback(arg)
set_change_callback(current, arg) == arg

\* the set_change_callback calls made so far, in order
Registrations ==
    SelectSeq(notifyLog, LAMBDA n : n.op = "set_change_callback")

\* set_change_callback(arg); the call is entered in the log of callback
\* events (it follows no request, so its "after" is 0)
SetChangeCallback(arg) ==
    /\ callback' = set_change_callback(callback, arg)
    /\ notifyLog' = Append(notifyLog, [task |-> "host",
                                       op |-> "set_change_callback",
                                       cb |-> arg, after |-> 0])
    /\ UNCHANGED <<statusArray, parsed, data, consecutive_failures,
                   last_update_success, base_url, reqs, inflight, tasks,
                   refreshLog, hass>>

\* what the host may register: nothing, or one of two callbacks, of which
\* one raises when it is run
CallbackArgs == {None, Some("ok"), Some("raises")}

\* answers to the requests of the host's calls
HostOutcomes(status_array) ==
    {TimeoutOutcome, NetErrorOutcome,
     HttpOutcome(200, JsonListBody(status_array)),
     HttpOutcome(200, JsonObjectBody),
     HttpOutcome(200, UnparseableBody),
     HttpOutcome(204, JsonObjectBody),
     HttpOutcome(404, JsonObjectBody),
     HttpOutcome(404, UnparseableBody),
     HttpOutcome(500, JsonObjectBody),
     HttpOutcome(500, UnparseableBody)}

\* answers to the commands that follow the setup
HostCommandOutcomes == {NetErrorOutcome, HttpOutcome(200, JsonObjectBody)}

InitHost ==
    /\ statusArray = <<0, DISCONNECTED_VALUE>>
    /\ parsed = None
    /\ data = None
    /\ consecutive_failures = 0
    /\ last_update_success = TRUE
    /\ base_url = NormalizeBaseUrl("http://m")
    /\ callback = None
    /\ notifyLog = <<>>
    /\ reqs = <<>>
    /\ inflight = {}
    /\ tasks = [t \in {"setup", "caller"} |-> IdleTask]
    /\ refreshLog = <<>>
    /\ hass = NoHost

\* test_connection returned True: async_setup_entry goes on, and callbacks
\* are registered and commands run
SetUp ==
    /\ tasks["setup"].pc = "done"
    /\ tasks["setup"].result[1] = Return(PyBool(TRUE))

NextHost ==
    \/ CallTestConnection("setup")
    \/ Send("setup")
    \/ \E outcome \in HostOutcomes(statusArray) :
           TestConnectionRecv("setup", outcome)
    \/ \E arg \in CallbackArgs :
           /\ SetUp
           /\ Len(Registrations) < MaxRegistrations
           /\ SetChangeCallback(arg)
    \/ SetUp /\ CallSetRoute("caller", 1, 1)
    \/ \E n \in 1..MaxOutputs : SetUp /\ CallSetAllToInput("caller", 1, n)
    \/ SetUp /\ CallSetSpliceAndVideo("caller")
    \/ Send("caller")
    \/ \E outcome \in HostCommandOutcomes : SetRouteRecv("caller", outcome)
    \/ \E outcome \in HostCommandOutcomes : SetAllRecv("caller", outcome)
    \/ \E outcome \in HostCommandOutcomes : PresetRecv("caller", outcome)
    \/ NotifyChange("caller")

SpecHost == InitHost /\ [][NextHost]_vars

---------------------------------------------------------------------------
(* Claims about the host's use of the client *)

\* task t has finished a test_connection call
TestedConnection(t) == Done(t) /\ tasks[t].op = "test_connection"

\* the answer is one of the failure classes of a status fetch
FailureClassOutcome(outcome) ==
    \/ outcome.kind \in {"timeout", "neterr"}
    \/ outcome.kind = "http" /\ outcome.status >= 400

\* C23: test_connection never raises; it returns true exactly when get_status
\* completes without error, and false for a timeout, a network error, a 5xx
\* and a 4xx answer alike.
C23_TestConnection ==
    \A t \in Tasks :
        TestedConnection(t) =>
            LET outcome == tasks[t].outcomes[1]
                value == tasks[t].result[1].value
            IN /\ Returned(t)
               /\ Len(RequestsOf(t)) = 1
               /\ value \in {PyBool(TRUE), PyBool(FALSE)}
               /\ (value = PyBool(TRUE))
                      <=> (GetStatusOnOutcome(outcome).kind = "return")
               /\ FailureClassOutcome(outcome) => value = PyBool(FALSE)

\* a test_connection whose status request was answered 404 has returned false
C23_Witness ==
    /\ TestedConnection("setup")
    /\ tasks["setup"].outcomes[1].kind = "http"
    /\ tasks["setup"].outcomes[1].status = 404
    /\ tasks["setup"].result[1] = Return(PyBool(FALSE))

\* the argument of the last set_change_callback call among the first k - 1
\* callback events; None, the constructor's value, when there is none
RECURSIVE LatestRegistered(_)
LatestRegistered(k) ==
    IF k <= 1 THEN None
    ELSE IF notifyLog[k - 1].op = "set_change_callback" THEN notifyLog[k - 1].cb
    ELSE LatestRegistered(k - 1)

\* C24: after any sequence of set_change_callback calls the client holds only
\* the argument of the most recent one; each notification runs that callback,
\* and none once null was registered last.
C24_LatestCallback ==
    /\ callback = LatestRegistered(Len(notifyLog) + 1)
    /\ \A k \in 1..Len(notifyLog) :
           notifyLog[k].op # "set_change_callback" =>
               notifyLog[k].cb = LatestRegistered(k)

\* one callback was registered, then another, then null; a notification after
\* the second ran the second, a notification after the third ran nothing
C24_Witness ==
    \E i, j \in 1..Len(notifyLog) :
        /\ i < j
        /\ Len(Registrations) = 3
        /\ Registrations[1].cb = Some("ok")
        /\ Registrations[2].cb = Some("raises")
        /\ Registrations[3].cb = None
        /\ notifyLog[i].op = "set_all_to_input"
        /\ notifyLog[i].cb = Some("raises")
        /\ notifyLog[j].op = "set_all_to_input"
        /\ notifyLog[j].cb = None

---------------------------------------------------------------------------
(* Claims about the change callback and clear_videowall_mode *)

\* task t has run a registered callback that raised
RanRaisingCallback(t) ==
    \E n \in 1..Len(CallbackRunsOf(t)) : CallbackRunsOf(t)[n].cb = Some("raises")

\* C25: an exception raised by the registered callback does not reach the
\* caller: set_route still returns the body of the device's answer and
\* set_splice_and_video still completes normally.
C25_CallbackErrorContained ==
    \A t \in Tasks :
        (Done(t) /\ RanRaisingCallback(t)) =>
            /\ tasks[t].op = "set_route" =>
                   /\ Returned(t)
                   /\ tasks[t].result[1].value =
                          ExecuteRequest(tasks[t].outcomes[1]).response.data
            /\ tasks[t].op = "set_splice_and_video" =>
                   tasks[t].result[1] = Return(PyNone)

\* a set_route whose callback raised has returned the JSON body of its answer
C25_Witness ==
    \E t \in Tasks :
        /\ tasks[t].op = "set_route"
        /\ Returned(t)
        /\ RanRaisingCallback(t)
        /\ Succeeded(tasks[t].outcomes[1])
        /\ tasks[t].result[1].value = tasks[t].outcomes[1].body.json[1]

\* C26: clear_videowall_mode sends exactly one request, to the splice
\* endpoint with splice = "[]"; it completes normally when the answer is HTTP
\* 200 and fails with a command-class error for every other status.
C26_ClearVideowall ==
    \A t \in Tasks :
        tasks[t].op = "clear_videowall_mode" =>
            /\ Len(RequestsOf(t)) <= 1
            /\ \A k \in 1..Len(RequestsOf(t)) :
                   /\ UrlPath(RequestsOf(t)[k].req.url) = base_url \o SPLICE
                   /\ QueryOf(RequestsOf(t)[k].req) = [splice |-> "[]"]
            /\ Done(t) =>
                   LET outcome == tasks[t].outcomes[1]
                   IN /\ Len(RequestsOf(t)) = 1
                      /\ Is200(outcome) => tasks[t].result[1] = Return(PyNone)
                      /\ (outcome.kind = "http" /\ outcome.status # 200) =>
                             RaisedClass(t, "CommandError")

\* a clear_videowall_mode answered 204 has failed with a command-class error
C26_Witness ==
    \E t \in Tasks :
        /\ tasks[t].op = "clear_videowall_mode"
        /\ Done(t)
        /\ tasks[t].outcomes[1].kind = "http"
        /\ tasks[t].outcomes[1].status = 204
        /\ RaisedClass(t, "CommandError")
        /\ Len(RequestsOf(t)) = 1

\* C27: every splice operation that changes the device's state and succeeds,
\* clear_videowall_mode included, invokes the registered callback once the
\* device has accepted it.
C27_SpliceOpsNotify ==
    \A t \in Tasks :
        (Returned(t)
         /\ tasks[t].op \in {"set_splice_and_video", "clear_videowall_mode"}) =>
            /\ Len(NotificationsOf(t)) = 1
            /\ NotificationsOf(t)[1].after = Len(RequestsOf(t))
            /\ callback # None => Len(CallbackRunsOf(t)) = 1

---------------------------------------------------------------------------
(* Claims about the accessors and get_status *)

\* the output numbers whose cached entry has a non-null input
OutputsWithInput ==
    {k \in 1..(MaxOutputs + 1) :
         /\ get_output_state(data, k) # EmptyDict
         /\ get_output_state(data, k).input # None}

\* C28: for every cached snapshot get_connected_outputs returns, strictly
\* ascending and so without duplicates, exactly the numbers of the outputs
\* whose entry has a non-null input; with no snapshot it returns the empty
\* list.
C28_ConnectedOutputs ==
    LET connected == get_connected_outputs(data)
    IN /\ \A i, j \in 1..Len(connected) : i < j => connected[i] < connected[j]
       /\ {connected[i] : i \in 1..Len(connected)} = OutputsWithInput
       /\ data = None => connected = <<>>
       /\ \A t \in Tasks :
              FetchedArray(t) =>
                  {connected[i] : i \in 1..Len(connected)} =
                      {k \in 1..Len(statusArray) :
                           statusArray[k] # DISCONNECTED_VALUE}

\* the snapshot of a device with a disconnected output between two connected
\* ones is cached
C28_Witness ==
    /\ \E t \in Tasks : FetchedArray(t)
    /\ Len(statusArray) = 3
    /\ statusArray[1] # DISCONNECTED_VALUE
    /\ statusArray[2] = DISCONNECTED_VALUE
    /\ statusArray[3] # DISCONNECTED_VALUE
    /\ get_connected_outputs(data) = <<1, 3>>

\* the dict the claims expect for a device array: one entry per output,
\* keyed "output_k" for k = 1..N
ExpectedSnapshot(status_array) ==
    LET N == Len(status_array)
        keys == {"output_" \o NatToStr(k) : k \in 1..N}
        numberOf(key) == CHOOSE k \in 1..N : "output_" \o NatToStr(k) = key
    IN PyDict([matrix |-> [key \in keys |->
                              [input |-> ExpectedInput(status_array[numberOf(key)]),
                               raw_value |-> status_array[numberOf(key)]]],
               total_outputs |-> N])

\* C29: get_status sends one request, to the status endpoint with id = 0;
\* when the body of the answer is a JSON array its result is the parse of
\* that array, and when the body is a JSON object its result is that object
\* unchanged.
C29_GetStatus ==
    \A t \in Tasks :
        tasks[t].op = "get_status" =>
            /\ Len(RequestsOf(t)) <= 1
            /\ \A k \in 1..Len(RequestsOf(t)) :
                   /\ UrlPath(RequestsOf(t)[k].req.url) = base_url \o STATUS
                   /\ QueryOf(RequestsOf(t)[k].req) = [id |-> "0"]
            /\ Done(t) => Len(RequestsOf(t)) = 1
            /\ Returned(t) =>
                   LET body == tasks[t].outcomes[1].body
                       value == tasks[t].result[1].value
                   IN body.json # None =>
                          /\ body.json[1].t = "list" =>
                                 value = ExpectedSnapshot(body.json[1].v)
                          /\ body.json[1].t = "dict" => value = body.json[1]

\* a get_status answered with the device's array has returned its parse
C29_Witness ==
    \E t \in Tasks :
        /\ tasks[t].op = "get_status"
        /\ Returned(t)
        /\ tasks[t].outcomes[1].body = JsonListBody(statusArray)
        /\ Len(statusArray) >= 2
        /\ tasks[t].result[1].value = ExpectedSnapshot(statusArray)

\* C30: every request the client issues (status, set_route, the 8 requests
\* of the preset, clear_videowall_mode) carries the configured per-request
\* timeout.
C30_EveryRequestTimeout ==
    \A k \in 1..Len(reqs) : reqs[k].req.timeout = Some(DEFAULT_TIMEOUT)

---------------------------------------------------------------------------
(* The consumers of the client: the select entity (src/select.py), the two *)
(* buttons (src/button.py) and the set_route / set_all_to_input services   *)
(* (src/services.py).  A consumer is a task too: "consumer" names it, step *)
(* counts the client calls it has started, cpc is its own position         *)
(* ("running" while a client call is under way, "done" once the handler    *)
(* has returned or raised) and cresult is what the handler ended with.     *)

\* the handler of task with its own end reached
ConsumerEnds(task, result) ==
    [task EXCEPT !.cpc = "done", !.cresult = Some(result)]

\* a handler entered: nothing of an earlier call is left in the task
Entered(consumer) == [IdleTask EXCEPT !.consumer = consumer, !.cpc = "running"]

\* await self._api.set_route(input_port, output_port) inside a handler
BeginSetRoute(task, input_port, output_port) ==
    [task EXCEPT !.op = "set_route", !.pc = "send", !.step = @ + 1,
                 !.input_port = input_port, !.output_port = output_port,
                 !.pending = None, !.result = None]

\* await api.set_all_to_input(input_port, num_outputs) inside a handler
BeginSetAllToInput(task, input_port, num_outputs) ==
    SetAllLoop([task EXCEPT !.op = "set_all_to_input", !.step = @ + 1,
                            !.input_port = input_port,
                            !.num_outputs = num_outputs, !.idx = 1,
                            !.result = None])

\* await self._api.set_splice_and_video() inside a handler
BeginSetSpliceAndVideo(task) ==
    [task EXCEPT !.op = "set_splice_and_video", !.pc = "send", !.step = @ + 1,
                 !.idx = 1, !.half = "cmd", !.result = None]

\* await self._api.clear_videowall_mode() inside a handler
BeginClearVideowallMode(task) ==
    [task EXCEPT !.op = "clear_videowall_mode", !.pc = "send",
                 !.step = @ + 1, !.result = None]

\* the words of option.split()
Words(option) ==
    LET i == IndexOf(option, " ")
    IN IF i = 0 THEN <<option>>
       ELSE <<SubSeq(option, 1, i - 1), SubSeq(option, i + 1, Len(option))>>

\* whether int(s) succeeds: s is a non-empty string of digits
IsDigits(s) ==
    /\ Len(s) > 0
    /\ \A k \in 1..Len(s) : \E d \in 0..9 : DigitStr(d) = SubSeq(s, k, k)

\* HDTVMatrixInputSelector._parse_input_number
parse_input_number(option) ==
    LET parts == Words(option)
    IN IF Len(parts) = 2 /\ parts[1] = "Entrada" /\ IsDigits(parts[2])
       THEN Some(StrToNat(parts[2]))
       ELSE None

\* HDTVMatrixInputSelector.async_select_option up to its first await
SelectOption(t, option, output_number) ==
    /\ tasks[t].pc = "idle" /\ tasks[t].cpc = ""
    /\ LET input_num == parse_input_number(option)
       IN tasks' = [tasks EXCEPT ![t] =
              IF option = "Sin entrada" \/ input_num = None
              THEN ConsumerEnds(Entered("select"), Return(PyNone))
              ELSE BeginSetRoute(Entered("select"), input_num[1],
                                 output_number)]
    /\ UNCHANGED <<statusArray, parsed, data, consecutive_failures,
                   last_update_success, base_url, callback, notifyLog, reqs,
                   inflight, refreshLog, hass>>

\* HDTVMatrixResetButton.async_press up to its first await
PressReset(t) ==
    /\ tasks[t].pc = "idle" /\ tasks[t].cpc = ""
    /\ tasks' = [tasks EXCEPT ![t] =
                    BeginClearVideowallMode(Entered("reset_button"))]
    /\ UNCHANGED <<statusArray, parsed, data, consecutive_failures,
                   last_update_success, base_url, callback, notifyLog, reqs,
                   inflight, refreshLog, hass>>

\* the outputs the videowall button routes input 1 to, in order
VideowallOutputs == <<1, 2, 3, 4>>

\* HDTVMatrixVideowallButton.async_press up to its first await
PressVideowall(t) ==
    /\ tasks[t].pc = "idle" /\ tasks[t].cpc = ""
    /\ tasks' = [tasks EXCEPT ![t] =
                    BeginSetRoute(Entered("videowall_button"), 1,
                                  VideowallOutputs[1])]
    /\ UNCHANGED <<statusArray, parsed, data, consecutive_failures,
                   last_update_success, base_url, callback, notifyLog, reqs,
                   inflight, refreshLog, hass>>

HostError(msg, cause) == Raise(Exc("HomeAssistantError", msg, cause))

\* the error of a service called while hass.data[DOMAIN] is empty
NoIntegration ==
    HostError("No HDTV Matrix integration found. Please add the integration first.", "")

OutOfRange(what, port, max) ==
    HostError(what \o " " \o IntToStr(port) \o " is out of range (1-"
                  \o IntToStr(max) \o ")", "")

\* mutant: the output of a set_route service call is not validated
HandleSetRouteChecks_InputOnly(input_port, output, max_inputs, max_outputs) ==
    IF input_port < 1 \/ input_port > max_inputs
    THEN OutOfRange("Input", input_port, max_inputs)
    ELSE Return(PyNone)

\* the range checks of handle_set_route: the error raised, or a plain return
HandleSetRouteChecks(input_port, output, max_inputs, max_outputs) ==
    IF input_port < 1 \/ input_port > max_inputs
    THEN OutOfRange("Input", input_port, max_inputs)
    ELSE IF output < 1 \/ output > max_outputs
    THEN OutOfRange("Output", output, max_outputs)
    ELSE Return(PyNone)

\* services.handle_set_route up to its first await; max_inputs and
\* max_outputs are the entry's configured counts
HandleSetRoute(t, input_port, output, max_inputs, max_outputs) ==
    /\ tasks[t].pc = "idle" /\ tasks[t].cpc = ""
    /\ LET entered == [Entered("set_route_service") EXCEPT
                           !.input_port = input_port, !.output_port = output,
                           !.num_inputs = max_inputs,
                           !.num_outputs = max_outputs]
           checked == HandleSetRouteChecks(input_port, output, max_inputs,
                                           max_outputs)
       IN tasks' = [tasks EXCEPT ![t] =
              IF hass.data = {} THEN ConsumerEnds(entered, NoIntegration)
              ELSE IF checked.kind = "raise" THEN ConsumerEnds(entered, checked)
              ELSE BeginSetRoute(entered, input_port, output)]
    /\ UNCHANGED <<statusArray, parsed, data, consecutive_failures,
                   last_update_success, base_url, callback, notifyLog, reqs,
                   inflight, refreshLog, hass>>

\* services.handle_set_all_to_input up to its first await
HandleSetAllToInput(t, input_port, max_inputs, max_outputs) ==
    /\ tasks[t].pc = "idle" /\ tasks[t].cpc = ""
    /\ LET entered == [Entered("set_all_to_input_service") EXCEPT
                           !.input_port = input_port,
                           !.num_inputs = max_inputs,
                           !.num_outputs = max_outputs]
       IN tasks' = [tasks EXCEPT ![t] =
              IF hass.data = {} THEN ConsumerEnds(entered, NoIntegration)
              ELSE IF input_port < 1 \/ input_port > max_inputs
              THEN ConsumerEnds(entered,
                                OutOfRange("Input", input_port, max_inputs))
              ELSE BeginSetAllToInput(entered, input_port, max_outputs)]
    /\ UNCHANGED <<statusArray, parsed, data, consecutive_failures,
                   last_update_success, base_url, callback, notifyLog, reqs,
                   inflight, refreshLog, hass>>

\* what a handler raises when the client call it awaited raised exc: the
\* services turn the client's two error classes into a host error, the
\* entities log and re-raise
ConsumerRaises(consumer, exc) ==
    IF consumer \in {"set_route_service", "set_all_to_input_service"}
    THEN IF exc.cls = "CommandError"
         THEN HostError((IF consumer = "set_route_service"
                         THEN "Failed to set route: "
                         ELSE "Failed to set all outputs: ") \o exc.msg,
                        exc.cls)
         ELSE IF exc.cls = "ConnectionError"
         THEN HostError("Connection error: " \o exc.msg, exc.cls)
         ELSE Raise(exc)
    ELSE Raise(exc)

\* whether the handler has a further client call to make after step calls
HasNextCall(consumer, step) ==
    consumer = "videowall_button" /\ step <= Len(VideowallOutputs)

\* mutant: the preset is run right after the first route
NextCall_PresetAfterFirstRoute(task) == BeginSetSpliceAndVideo(task)

\* the next client call of the videowall button after step calls
NextCall(task) ==
    IF task.step < Len(VideowallOutputs)
    THEN BeginSetRoute(task, 1, VideowallOutputs[task.step + 1])
    ELSE BeginSetSpliceAndVideo(task)

\* mutant: the refresh is requested whether or not the client call raised
ConsumerResumes_AlwaysRefreshes(t) ==
    /\ tasks[t].cpc = "running" /\ tasks[t].pc = "done"
    /\ LET task == tasks[t]
           r == task.result[1]
       IN IF r.kind = "return" /\ HasNextCall(task.consumer, task.step)
          THEN /\ tasks' = [tasks EXCEPT ![t] = NextCall(task)]
               /\ hass' = hass
          ELSE /\ tasks' = [tasks EXCEPT ![t] =
                               IF r.kind = "raise"
                               THEN ConsumerEnds(task, ConsumerRaises(
                                                     task.consumer, r.exc))
                               ELSE ConsumerEnds(task, Return(PyNone))]
               /\ hass' = [hass EXCEPT !.refresh_requests =
                              Append(@, [by |-> t, after |-> Len(reqs)])]
    /\ UNCHANGED <<statusArray, parsed, data, consecutive_failures,
                   last_update_success, base_url, callback, notifyLog, reqs,
                   inflight, refreshLog>>

\* the handler resumes after the client call it awaited: an exception ends
\* it; otherwise it makes its next call or, after the last one, requests a
\* refresh of the coordinator and returns
ConsumerResumes(t) ==
    /\ tasks[t].cpc = "running" /\ tasks[t].pc = "done"
    /\ LET task == tasks[t]
           r == task.result[1]
       IN IF r.kind = "raise"
          THEN /\ tasks' = [tasks EXCEPT ![t] =
                               ConsumerEnds(task, ConsumerRaises(
                                                task.consumer, r.exc))]
               /\ hass' = hass
          ELSE IF HasNextCall(task.consumer, task.step)
          THEN /\ tasks' = [tasks EXCEPT ![t] = NextCall(task)]
               /\ hass' = hass
          ELSE /\ tasks' = [tasks EXCEPT ![t] =
                               ConsumerEnds(task, Return(PyNone))]
               /\ hass' = [hass EXCEPT !.refresh_requests =
                              Append(@, [by |-> t, after |-> Len(reqs)])]
    /\ UNCHANGED <<statusArray, parsed, data, consecutive_failures,
                   last_update_success, base_url, callback, notifyLog, reqs,
                   inflight, refreshLog>>

\* answers to the commands of a consumer: accepted, refused by the device,
\* unreachable, silent
ConsumerOutcomes ==
    {HttpOutcome(200, JsonObjectBody), HttpOutcome(500, JsonObjectBody),
     NetErrorOutcome, TimeoutOutcome}

\* the options a user may pick in the select entity of output 1
SelectOptions == {"Entrada 1", "Entrada 2", "Sin entrada", "Entrada", "HDMI 1"}

\* one entry is loaded
LoadedHost ==
    [NoHost EXCEPT !.data = {"entry1"}, !.services = ServiceNames,
                   !.platforms = {"entry1"}]

InitConsumer ==
    /\ statusArray = <<0, DISCONNECTED_VALUE>>
    /\ parsed = None
    /\ data = None
    /\ consecutive_failures = 0
    /\ last_update_success = TRUE
    /\ base_url = NormalizeBaseUrl("http://m")
    /\ callback = None
    /\ notifyLog = <<>>
    /\ reqs = <<>>
    /\ inflight = {}
    /\ tasks = [t \in {"consumer"} |-> IdleTask]
    /\ refreshLog = <<>>
    /\ hass = LoadedHost

NextConsumer ==
    \/ \E option \in SelectOptions : SelectOption("consumer", option, 1)
    \/ PressReset("consumer")
    \/ PressVideowall("consumer")
    \/ \E i, o \in 0..(MaxConfigured + 1), mi, mo \in 1..MaxConfigured :
           HandleSetRoute("consumer", i, o, mi, mo)
    \/ \E i \in 0..(MaxConfigured + 1), mi, mo \in 1..MaxConfigured :
           HandleSetAllToInput("consumer", i, mi, mo)
    \/ Send("consumer")
    \/ \E outcome \in ConsumerOutcomes : SetRouteRecv("consumer", outcome)
    \/ \E outcome \in ConsumerOutcomes : SetAllRecv("consumer", outcome)
    \/ \E outcome \in ConsumerOutcomes : PresetRecv("consumer", outcome)
    \/ \E outcome \in ConsumerOutcomes : ClearRecv("consumer", outcome)
    \/ NotifyChange("consumer")
    \/ ConsumerResumes("consumer")

SpecConsumer == InitConsumer /\ [][NextConsumer]_vars

---------------------------------------------------------------------------
(* Claims about the consumers *)

\* the refreshes task t has asked of the coordinator, in order
RefreshRequestsBy(t) == SelectSeq(hass.refresh_requests, LAMBDA q : q.by = t)

\* the handler run by task t has ended
ConsumerDone(t) == tasks[t].cpc = "done"

\* the handler run by task t has made a client call
Wrote(t) == tasks[t].consumer # "" /\ tasks[t].step >= 1

\* C31: for every write of a consumer (select option, reset button, videowall
\* button, set_route and set_all_to_input services) the refresh is requested
\* only after the client command has completed successfully, and exactly
\* once; when the command fails no refresh is requested and the handler
\* raises.
C31_RefreshAfterWrite ==
    \A t \in Tasks :
        Wrote(t) =>
            /\ Len(RefreshRequestsBy(t)) <= 1
            /\ \A k \in 1..Len(RefreshRequestsBy(t)) :
                   /\ Returned(t)
                   /\ InFlightOf(t) = {}
                   /\ RefreshRequestsBy(t)[k].after = Len(RequestsOf(t))
                   /\ ~HasNextCall(tasks[t].consumer, tasks[t].step)
            /\ (ConsumerDone(t) /\ Returned(t)) =>
                   /\ Len(RefreshRequestsBy(t)) = 1
                   /\ tasks[t].cresult[1] = Return(PyNone)
            /\ (ConsumerDone(t) /\ Raised(t)) =>
                   /\ Len(RefreshRequestsBy(t)) = 0
                   /\ tasks[t].cresult[1].kind = "raise"
                   /\ \/ tasks[t].cresult[1].exc = tasks[t].result[1].exc
                      \/ /\ tasks[t].cresult[1].exc.cls = "HomeAssistantError"
                         /\ tasks[t].cresult[1].exc.cause
                                = tasks[t].result[1].exc.cls

\* a set_route service call whose command failed has raised a host error
\* without requesting a refresh
C31_Witness ==
    \E t \in Tasks :
        /\ tasks[t].consumer = "set_route_service"
        /\ ConsumerDone(t)
        /\ RaisedClass(t, "CommandError")
        /\ Len(RequestsOf(t)) = 1
        /\ Len(RefreshRequestsBy(t)) = 0
        /\ tasks[t].cresult[1].exc.cls = "HomeAssistantError"

\* the service call run by task t names a port outside the configured range
PortOutOfRange(t) ==
    LET task == tasks[t]
    IN \/ /\ task.consumer = "set_route_service"
          /\ \/ task.input_port \notin 1..task.num_inputs
             \/ task.output_port \notin 1..task.num_outputs
       \/ /\ task.consumer = "set_all_to_input_service"
          /\ task.input_port \notin 1..task.num_inputs

\* C32: the set_route service called with an input outside 1..configured
\* inputs or an output outside 1..configured outputs, and the
\* set_all_to_input service called with an input outside 1..configured
\* inputs, fail with a host error before any client call: no device request
\* is sent and no refresh is requested.
C32_ServiceRangeChecks ==
    \A t \in Tasks :
        PortOutOfRange(t) =>
            /\ ConsumerDone(t)
            /\ tasks[t].cresult[1].kind = "raise"
            /\ tasks[t].cresult[1].exc.cls = "HomeAssistantError"
            /\ tasks[t].step = 0
            /\ Len(RequestsOf(t)) = 0
            /\ Len(RefreshRequestsBy(t)) = 0

\* a set_route service call with a valid input and an output above the
\* configured count has been refused
C32_Witness ==
    \E t \in Tasks :
        /\ tasks[t].consumer = "set_route_service"
        /\ tasks[t].input_port \in 1..tasks[t].num_inputs
        /\ tasks[t].output_port = tasks[t].num_outputs + 1
        /\ ConsumerDone(t)
        /\ tasks[t].cresult[1].exc.cls = "HomeAssistantError"
        /\ reqs = <<>>

\* request r is the k-th request of a press of the videowall button: the
\* routes of input 1 to outputs 1..4, then the 8 requests of the preset
IsKthOfVideowallPress(r, k) ==
    IF k <= 4
    THEN /\ r.op = "set_route"
         /\ r.req.url = base_url \o "get_json_cmd.php"
         /\ QueryOf(r.req) = [cmd |-> "o2ox", prm |-> ExpectedRoutePrm(1, k)]
    ELSE /\ r.op = "set_splice_and_video"
         /\ IsKthOfPreset(r, k - 4)

\* C37: a press of the videowall button issues set_route(1, 1), (1, 2),
\* (1, 3), (1, 4) in that order, then the splice preset, then one refresh
\* request; once a step has failed no later step is started (no preset after
\* a failed route, no refresh) and the error reaches the caller.
C37_VideowallPress ==
    \A t \in Tasks :
        tasks[t].consumer = "videowall_button" =>
            /\ Len(RequestsOf(t)) <= 12
            /\ \A k \in 1..Len(RequestsOf(t)) :
                   IsKthOfVideowallPress(RequestsOf(t)[k], k)
            /\ Cardinality(InFlightOf(t)) <= 1
            /\ Len(RefreshRequestsBy(t)) <= 1
            /\ \A k \in 1..Len(RefreshRequestsBy(t)) :
                   /\ Len(RequestsOf(t)) = 12
                   /\ RefreshRequestsBy(t)[k].after = 12
                   /\ tasks[t].op = "set_splice_and_video" /\ Returned(t)
            /\ (ConsumerDone(t) /\ Returned(t)) =>
                   Len(RequestsOf(t)) = 12 /\ Len(RefreshRequestsBy(t)) = 1
            /\ Raised(t) =>
                   /\ Len(RefreshRequestsBy(t)) = 0
                   /\ tasks[t].op = "set_route" =>
                          Len(RequestsOf(t)) = tasks[t].step
                   /\ ConsumerDone(t) =>
                          tasks[t].cresult[1] = Raise(tasks[t].result[1].exc)

\* the third route of a press failed: three requests were sent, the handler
\* raised the command error, and nothing followed
C37_Witness ==
    \E t \in Tasks :
        /\ tasks[t].consumer = "videowall_button"
        /\ ConsumerDone(t)
        /\ tasks[t].step = 3
        /\ RaisedClass(t, "CommandError")
        /\ Len(RequestsOf(t)) = 3
        /\ hass.refresh_requests = <<>>

---------------------------------------------------------------------------
(* Configured values: the scan interval and the port counts *)

ConfNone == [t |-> "none", i |-> 0, s |-> ""]

\* s.strip() for blanks
RECURSIVE Strip(_)
Strip(s) ==
    IF Len(s) > 0 /\ SubSeq(s, 1, 1) = " " THEN Strip(Tail(s))
    ELSE IF Len(s) > 0 /\ SubSeq(s, Len(s), Len(s)) = " "
    THEN Strip(SubSeq(s, 1, Len(s) - 1))
    ELSE s

\* int(value): the integer, or None where int() raises ValueError or
\* TypeError
py_int(value) ==
    IF value.t = "int" THEN Some(value.i)
    ELSE IF value.t = "none" THEN None
    ELSE LET s == Strip(value.s)
             signed == Len(s) > 0 /\ SubSeq(s, 1, 1) \in {"-", "+"}
             digits == IF signed THEN Tail(s) ELSE s
         IN IF ~IsDigits(digits) THEN None
            ELSE IF signed /\ SubSeq(s, 1, 1) = "-"
            THEN Some(0 - StrToNat(digits))
            ELSE Some(StrToNat(digits))

\* mutant: an interval above 60 is kept
validate_scan_interval_NoUpperLimit(scan_interval) ==
    LET interval == py_int(scan_interval)
    IN IF interval = None THEN 1
       ELSE IF interval[1] < 1 THEN 1
       ELSE interval[1]

\* _validate_scan_interval
validate_scan_interval(scan_interval) ==
    LET interval == py_int(scan_interval)
    IN IF interval = None THEN 1
       ELSE IF interval[1] < 1 THEN 1
       ELSE IF interval[1] > 60 THEN 60
       ELSE interval[1]

\* select._validate_port_count
validate_port_count(count) ==
    LET num == py_int(count)
    IN IF num = None THEN 4
       ELSE IF num[1] < 1 THEN 4
       ELSE IF num[1] > 64 THEN 64
       ELSE num[1]

\* sensor._validate_output_count
validate_output_count(count) ==
    LET num == py_int(count)
    IN IF num = None THEN 4
       ELSE IF num[1] < 1 THEN 4
       ELSE IF num[1] > 64 THEN 64
       ELSE num[1]

\* async_setup_entry reads the scan interval of the entry and validates it
ReadScanInterval(t) ==
    /\ tasks[t].pc = "idle"
    /\ tasks' = [tasks EXCEPT ![t] =
           Finish([IdleTask EXCEPT !.op = "_validate_scan_interval"],
                  Return(JInt(validate_scan_interval(hass.options[1]))))]
    /\ UNCHANGED <<statusArray, parsed, data, consecutive_failures,
                   last_update_success, base_url, callback, notifyLog, reqs,
                   inflight, refreshLog, hass>>

\* select.async_setup_entry: one selector per output
SelectSetupEntry(t) ==
    /\ tasks[t].pc = "idle"
    /\ data # None
    /\ LET num_inputs == validate_port_count(hass.options[1])
           num_outputs == validate_port_count(hass.options[1])
       IN /\ tasks' = [tasks EXCEPT ![t] =
                 Finish([IdleTask EXCEPT !.op = "select.async_setup_entry",
                                         !.num_inputs = num_inputs,
                                         !.num_outputs = num_outputs],
                        Return(PyNone))]
          /\ hass' = [hass EXCEPT !.entities = @ \cup
                 {[platform |-> "select", output_number |-> output_num] :
                      output_num \in 1..num_outputs}]
    /\ UNCHANGED <<statusArray, parsed, data, consecutive_failures,
                   last_update_success, base_url, callback, notifyLog, reqs,
                   inflight, refreshLog>>

\* sensor.async_setup_entry: one sensor per output
SensorSetupEntry(t) ==
    /\ tasks[t].pc = "idle"
    /\ data # None
    /\ LET num_outputs == validate_output_count(hass.options[1])
       IN /\ tasks' = [tasks EXCEPT ![t] =
                 Finish([IdleTask EXCEPT !.op = "sensor.async_setup_entry",
                                         !.num_outputs = num_outputs],
                        Return(PyNone))]
          /\ hass' = [hass EXCEPT !.entities = @ \cup
                 {[platform |-> "sensor", output_number |-> output_num] :
                      output_num \in 1..num_outputs}]
    /\ UNCHANGED <<statusArray, parsed, data, consecutive_failures,
                   last_update_success, base_url, callback, notifyLog, reqs,
                   inflight, refreshLog>>

\* the values an entry can hold for an interval or a count
ConfigValues ==
    {JInt(i) : i \in (0 - 2)..MaxConfigValue}
        \cup {JStr(s) : s \in {"5", " 61 ", "-3", "+7", "0", "65", "", "abc",
                               "7.5"}}
        \cup {ConfNone}

InitConfig ==
    /\ statusArray = <<0, DISCONNECTED_VALUE>>
    /\ parsed = None
    /\ data = Some(PyDict(EmptyDict))
    /\ consecutive_failures = 0
    /\ last_update_success = TRUE
    /\ base_url = NormalizeBaseUrl("http://m")
    /\ callback = None
    /\ notifyLog = <<>>
    /\ reqs = <<>>
    /\ inflight = {}
    /\ tasks = [t \in {"setup", "select", "sensor"} |-> IdleTask]
    /\ refreshLog = <<>>
    /\ \E v \in ConfigValues :
           hass = [NoHost EXCEPT !.data = {"entry1"}, !.options = Some(v)]

NextConfig ==
    \/ ReadScanInterval("setup")
    \/ SelectSetupEntry("select")
    \/ SensorSetupEntry("sensor")

SpecConfig == InitConfig /\ [][NextConfig]_vars

---------------------------------------------------------------------------
(* Claims about the configured values *)

\* the value the entry holds
Configured == hass.options[1]

\* C33: for every configured scan interval v, _validate_scan_interval
\* returns an integer in 1..60: v when 1 <= v <= 60, 1 when v < 1, 60 when
\* v > 60, and 1 when v is not convertible to an integer.
C33_ScanInterval ==
    tasks["setup"].pc = "done" =>
        LET r == tasks["setup"].result[1].value.i
            v == py_int(Configured)
        IN /\ tasks["setup"].result[1].kind = "return"
           /\ r \in 1..60
           /\ (v # None /\ v[1] \in 1..60) => r = v[1]
           /\ (v # None /\ v[1] < 1) => r = 1
           /\ (v # None /\ v[1] > 60) => r = 60
           /\ v = None => r = 1

C33_Witness ==
    /\ tasks["setup"].pc = "done"
    /\ Configured = JInt(61)
    /\ tasks["setup"].result[1].value = JInt(60)

\* the count the claim expects for a configured count
Clamped(count) ==
    LET n == py_int(count)
    IN IF n[1] < 1 THEN 1 ELSE IF n[1] > 64 THEN 64 ELSE n[1]

\* the entities platform has created
EntitiesOf(platform) == {e \in hass.entities : e.platform = platform}

\* C34: for every configured count n the port-count validators return n
\* when 1 <= n <= 64, 64 when n > 64 and 1 when n < 1, and the number of
\* per-output entities created equals the clamped count.
C34_PortCountClamp ==
    \A t \in {"select", "sensor"} :
        (tasks[t].pc = "done" /\ py_int(Configured) # None) =>
            /\ tasks[t].num_outputs = Clamped(Configured)
            /\ Cardinality(EntitiesOf(t)) = Clamped(Configured)

---------------------------------------------------------------------------
(* Claim about the results of the transport *)

\* C35: every result _execute_request returns to its caller instead of
\* raising has success = true (status 200 and a JSON-parsed body); for every
\* other outcome (a status other than 200, or an unparseable body) the call
\* raises a typed error.
C35_ReturnedMeansSuccess ==
    \A t \in Tasks :
        (/\ tasks[t].op \in {"get_status", "set_route"}
         /\ Done(t)
         /\ LastOutcome(t).kind = "http") =>
            LET executed == ExecuteRequest(LastOutcome(t))
            IN /\ ~executed.raised => executed.response.success
               /\ (~Is200(LastOutcome(t)) \/ LastOutcome(t).body.json = None)
                      => /\ executed.raised
                         /\ executed.exc.cls \in {"ConnectionError",
                                                  "InvalidResponseError"}

---------------------------------------------------------------------------
(* async_request_refresh_and_wait: a caller asks for a refresh and waits *)

\* async_request_refresh_and_wait up to the wait loop: the refresh is asked
\* of the coordinator, whose run of _async_update_data is the task "request";
\* the host hands control back with that run finished, in flight or still
\* to start
RequestRefreshAndWait(t) ==
    /\ tasks[t].pc = "idle"
    /\ tasks["request"].pc \in {"idle", "done"}
    /\ consecutive_failures < MaxFailures
    /\ tasks' = [tasks EXCEPT
           ![t] = [IdleTask EXCEPT !.op = "async_request_refresh_and_wait",
                                   !.pc = "wait"],
           !["request"] = [IdleTask EXCEPT !.op = "refresh", !.pc = "send"]]
    /\ UNCHANGED <<statusArray, parsed, data, consecutive_failures,
                   last_update_success, base_url, callback, notifyLog, reqs,
                   inflight, refreshLog, hass>>

\* async_wait_for_update: a pass of the loop that finds last_update_success
\* set returns
WaitForUpdateReturns(t) ==
    /\ tasks[t].pc = "wait"
    /\ last_update_success
    /\ tasks' = [tasks EXCEPT ![t] = Finish(@, Return(PyNone))]
    /\ UNCHANGED <<statusArray, parsed, data, consecutive_failures,
                   last_update_success, base_url, callback, notifyLog, reqs,
                   inflight, refreshLog, hass>>

\* async_wait_for_update: 5 seconds of passes that found last_update_success
\* unset; a warning is logged and the wait returns
WaitForUpdateTimesOut(t) ==
    /\ tasks[t].pc = "wait"
    /\ ~last_update_success
    /\ tasks' = [tasks EXCEPT ![t] =
           Finish([@ EXCEPT !.errors =
                       <<"Timeout waiting for coordinator update">>],
                  Return(PyNone))]
    /\ UNCHANGED <<statusArray, parsed, data, consecutive_failures,
                   last_update_success, base_url, callback, notifyLog, reqs,
                   inflight, refreshLog, hass>>

InitWait ==
    /\ statusArray = <<0, DISCONNECTED_VALUE>>
    /\ parsed = None
    /\ data = None
    /\ consecutive_failures = 0
    /\ last_update_success = TRUE
    /\ base_url = NormalizeBaseUrl("http://m")
    /\ callback = None
    /\ notifyLog = <<>>
    /\ reqs = <<>>
    /\ inflight = {}
    /\ tasks = [t \in {"timer", "request", "waiter"} |-> IdleTask]
    /\ refreshLog = <<>>
    /\ hass = [NoHost EXCEPT !.data = {"entry1"}]

\* the timer refreshes before and while the caller waits
NextWait ==
    \/ Len(reqs) < MaxRefreshes /\ CallRefresh("timer")
    \/ RequestRefreshAndWait("waiter")
    \/ \E t \in {"timer", "request"} : Len(reqs) < MaxRefreshes /\ Send(t)
    \/ \E t \in {"timer", "request"},
          outcome \in PollStatusOutcomes(statusArray) :
           RefreshRecv(t, outcome)
    \/ WaitForUpdateReturns("waiter")
    \/ WaitForUpdateTimesOut("waiter")

SpecWait == InitWait /\ [][NextWait]_vars

---------------------------------------------------------------------------
(* Claim about async_request_refresh_and_wait *)

\* C36: async_request_refresh_and_wait returns only after the refresh it
\* requested has completed; it never returns while that refresh is still
\* pending or in flight.
C36_WaitCoversRequestedRefresh ==
    tasks["waiter"].pc = "done" => tasks["request"].pc = "done"

---------------------------------------------------------------------------
(* Claim about the logs of the refresh *)

\* a refresh of t ends in this step with a connection-class failure
ConnectionFailureEnds(t) ==
    /\ tasks[t].op = "refresh" /\ tasks[t].pc = "await"
    /\ tasks'[t].pc = "done"
    /\ tasks'[t].result[1].kind = "raise"
    /\ tasks'[t].result[1].exc.cause = "ConnectionError"

---------------------------------------------------------------------------
(* Config entries: async_setup_entry and async_unload_entry on the host.   *)
(* Each entry has its own client and coordinator; what the connection test *)
(* and the first refresh of an entry yield is kept with the entry's task.  *)

ConfigEntryNotReady(msg) == Raise(Exc("ConfigEntryNotReady", msg, ""))

\* the entry is set up: its platforms are loaded
Loaded(e) == e \in hass.platforms

\* neither a setup nor an unload of the entry is running
Settled(e) == tasks[e].cpc \in {"", "done"}

\* the setups begun so far
SetupsBegun ==
    Cardinality({k \in 1..Len(reqs) : reqs[k].op = "test_connection"})
        + Cardinality({e \in Tasks : /\ tasks[e].op = "test_connection"
                                     /\ tasks[e].pc = "send"})

\* async_setup_services / async_unload_services
async_setup_services(services) == services \cup ServiceNames

async_unload_services(services) == services \ ServiceNames

\* async_setup_entry up to its first await: the client is created and the
\* connection test is awaited
SetupEntry(e) ==
    /\ Settled(e) /\ ~Loaded(e)
    /\ SetupsBegun < MaxSetups
    /\ tasks' = [tasks EXCEPT ![e] =
           [Entered("async_setup_entry") EXCEPT
                !.op = "test_connection", !.pc = "send", !.step = 1]]
    /\ UNCHANGED <<statusArray, parsed, data, consecutive_failures,
                   last_update_success, base_url, callback, notifyLog, reqs,
                   inflight, refreshLog, hass>>

\* async_setup_entry after the connection test: without a connection it
\* raises ConfigEntryNotReady; otherwise the coordinator is created, the
\* entry is stored in hass.data and the first refresh is awaited
SetupAfterConnectionTest(e) ==
    /\ tasks[e].consumer = "async_setup_entry" /\ tasks[e].cpc = "running"
    /\ tasks[e].step = 1 /\ tasks[e].pc = "done"
    /\ IF tasks[e].result[1].value # PyBool(TRUE)
       THEN /\ tasks' = [tasks EXCEPT ![e] =
                   ConsumerEnds(@, ConfigEntryNotReady(
                       "No se pudo conectar al dispositivo"))]
            /\ hass' = hass
       ELSE /\ tasks' = [tasks EXCEPT ![e] =
                   [@ EXCEPT !.op = "refresh", !.pc = "send", !.step = 2,
                             !.result = None]]
            /\ hass' = [hass EXCEPT !.data = @ \cup {e}]
    /\ UNCHANGED <<statusArray, parsed, data, consecutive_failures,
                   last_update_success, base_url, callback, notifyLog, reqs,
                   inflight, refreshLog>>

\* the first refresh of the entry's new coordinator ends
FirstRefreshRecv(e, outcome) ==
    /\ Arrive(e, "refresh")
    /\ tasks[e].consumer = "async_setup_entry"
    /\ LET r == AsyncUpdateData(outcome, 0)
       IN tasks' = [tasks EXCEPT ![e] =
              Finish([Got(@, outcome) EXCEPT !.logged = r.logged], r.result)]
    /\ UNCHANGED <<statusArray, parsed, data, consecutive_failures,
                   last_update_success, base_url, callback, notifyLog, reqs,
                   refreshLog, hass>>

\* mutant: a failed first refresh leaves the entry in hass.data
SetupAfterFirstRefresh_KeepsEntryData(e) ==
    /\ tasks[e].consumer = "async_setup_entry" /\ tasks[e].cpc = "running"
    /\ tasks[e].step = 2 /\ tasks[e].pc = "done"
    /\ IF tasks[e].result[1].kind = "raise"
       THEN /\ tasks' = [tasks EXCEPT ![e] =
                   ConsumerEnds(@, ConfigEntryNotReady(
                       "Error obteniendo datos iniciales: "
                           \o tasks[e].result[1].exc.msg))]
            /\ hass' = hass
       ELSE /\ tasks' = [tasks EXCEPT ![e] = [@ EXCEPT !.step = 3]]
            /\ hass' = [hass EXCEPT !.services =
                   IF Cardinality(hass.data) = 1
                   THEN async_setup_services(@) ELSE @]
    /\ UNCHANGED <<statusArray, parsed, data, consecutive_failures,
                   last_update_success, base_url, callback, notifyLog, reqs,
                   inflight, refreshLog>>

\* async_setup_entry after the first refresh: on failure the entry is taken
\* out of hass.data and ConfigEntryNotReady is raised; otherwise the services
\* are registered if hass.data holds exactly one entry, and the platforms
\* are forwarded
SetupAfterFirstRefresh(e) ==
    /\ tasks[e].consumer = "async_setup_entry" /\ tasks[e].cpc = "running"
    /\ tasks[e].step = 2 /\ tasks[e].pc = "done"
    /\ IF tasks[e].result[1].kind = "raise"
       THEN /\ tasks' = [tasks EXCEPT ![e] =
                   ConsumerEnds(@, ConfigEntryNotReady(
                       "Error obteniendo datos iniciales: "
                           \o tasks[e].result[1].exc.msg))]
            /\ hass' = [hass EXCEPT !.data = @ \ {e}]
       ELSE /\ tasks' = [tasks EXCEPT ![e] = [@ EXCEPT !.step = 3]]
            /\ hass' = [hass EXCEPT !.services =
                   IF Cardinality(hass.data) = 1
                   THEN async_setup_services(@) ELSE @]
    /\ UNCHANGED <<statusArray, parsed, data, consecutive_failures,
                   last_update_success, base_url, callback, notifyLog, reqs,
                   inflight, refreshLog>>

\* async_forward_entry_setups returns: the platforms of the entry are loaded
\* and async_setup_entry returns True
SetupAfterPlatforms(e) ==
    /\ tasks[e].consumer = "async_setup_entry" /\ tasks[e].cpc = "running"
    /\ tasks[e].step = 3
    /\ tasks' = [tasks EXCEPT ![e] = ConsumerEnds(@, Return(PyBool(TRUE)))]
    /\ hass' = [hass EXCEPT !.platforms = @ \cup {e}]
    /\ UNCHANGED <<statusArray, parsed, data, consecutive_failures,
                   last_update_success, base_url, callback, notifyLog, reqs,
                   inflight, refreshLog>>

\* async_unload_entry up to its await of async_unload_platforms
UnloadEntry(e) ==
    /\ Settled(e) /\ Loaded(e)
    /\ tasks' = [tasks EXCEPT ![e] =
           [Entered("async_unload_entry") EXCEPT !.step = 1]]
    /\ UNCHANGED <<statusArray, parsed, data, consecutive_failures,
                   last_update_success, base_url, callback, notifyLog, reqs,
                   inflight, refreshLog, hass>>

\* async_unload_entry after async_unload_platforms: when the platforms did
\* not unload it returns False; otherwise the entry is taken out of
\* hass.data, and the services are removed if no entry is left there
UnloadAfterPlatforms(e, unload_ok) ==
    /\ tasks[e].consumer = "async_unload_entry" /\ tasks[e].cpc = "running"
    /\ IF ~unload_ok
       THEN /\ tasks' = [tasks EXCEPT ![e] =
                   ConsumerEnds(@, Return(PyBool(FALSE)))]
            /\ hass' = hass
       ELSE /\ tasks' = [tasks EXCEPT ![e] =
                   ConsumerEnds(@, Return(PyBool(TRUE)))]
            /\ hass' = [hass EXCEPT
                   !.platforms = @ \ {e},
                   !.data = @ \ {e},
                   !.services = IF hass.data \ {e} = {}
                                THEN async_unload_services(@) ELSE @]
    /\ UNCHANGED <<statusArray, parsed, data, consecutive_failures,
                   last_update_success, base_url, callback, notifyLog, reqs,
                   inflight, refreshLog>>

\* answers of the device during a setup
SetupOutcomes ==
    {HttpOutcome(200, JsonObjectBody), HttpOutcome(500, JsonObjectBody),
     TimeoutOutcome}

Entries == {"entry1", "entry2"}

InitSetup ==
    /\ statusArray = <<0, DISCONNECTED_VALUE>>
    /\ parsed = None
    /\ data = None
    /\ consecutive_failures = 0
    /\ last_update_success = TRUE
    /\ base_url = NormalizeBaseUrl("http://m")
    /\ callback = None
    /\ notifyLog = <<>>
    /\ reqs = <<>>
    /\ inflight = {}
    /\ tasks = [e \in Entries |-> IdleTask]
    /\ refreshLog = <<>>
    /\ hass = NoHost

NextSetup ==
    \/ \E e \in Entries : SetupEntry(e)
    \/ \E e \in Entries : Send(e)
    \/ \E e \in Entries, outcome \in SetupOutcomes :
           TestConnectionRecv(e, outcome)
    \/ \E e \in Entries : SetupAfterConnectionTest(e)
    \/ \E e \in Entries, outcome \in SetupOutcomes :
           FirstRefreshRecv(e, outcome)
    \/ \E e \in Entries : SetupAfterFirstRefresh(e)
    \/ \E e \in Entries : SetupAfterPlatforms(e)
    \/ \E e \in Entries : UnloadEntry(e)
    \/ \E e \in Entries, unload_ok \in BOOLEAN :
           UnloadAfterPlatforms(e, unload_ok)

SpecSetup == InitSetup /\ [][NextSetup]_vars

---------------------------------------------------------------------------
(* Claims about the config entries *)

\* C38: after any sequence of setups and unloads, overlapping setups of two
\* entries included, the four services are registered whenever at least one
\* entry is loaded and are not registered when none is.
C38_ServicesFollowEntries ==
    (\A e \in Entries : Settled(e)) =>
        /\ (\E e \in Entries : Loaded(e)) => hass.services = ServiceNames
        /\ (\A e \in Entries : ~Loaded(e)) => hass.services = {}

\* a setup of e ends in this step by raising
SetupFails(e) ==
    /\ tasks[e].consumer = "async_setup_entry" /\ tasks[e].cpc = "running"
    /\ tasks'[e].cpc = "done"
    /\ tasks'[e].cresult[1].kind = "raise"

\* a step of a setup of e that has not passed its first refresh
SetupStepBeforeServices(e) ==
    /\ tasks'[e] # tasks[e]
    /\ tasks'[e].consumer = "async_setup_entry"
    /\ tasks'[e].step <= 2

\* C39: when the connection test or the first refresh fails, async_setup_entry
\* raises ConfigEntryNotReady and leaves the registry of the host as before:
\* no data stored under the entry id, no service registered by this setup,
\* no platform loaded.
C39_FailedSetupLeavesNothing ==
    [][\A e \in Entries :
           /\ SetupFails(e) =>
                  /\ tasks'[e].cresult[1].exc.cls = "ConfigEntryNotReady"
                  /\ tasks[e].step \in {1, 2}
                  /\ e \notin hass'.data
                  /\ hass'.data = hass.data \ {e}
                  /\ e \notin hass'.platforms
           /\ SetupStepBeforeServices(e) =>
                  /\ hass'.services = hass.services
                  /\ hass'.platforms = hass.platforms]_vars

C39_Witness ==
    /\ tasks["entry1"].consumer = "async_setup_entry"
    /\ tasks["entry1"].cpc = "done"
    /\ tasks["entry1"].cresult[1].kind = "raise"
    /\ tasks["entry1"].step = 2
    /\ tasks["entry2"].consumer = "async_setup_entry"
    /\ tasks["entry2"].cpc = "done"
    /\ tasks["entry2"].cresult[1].kind = "raise"
    /\ tasks["entry2"].step = 1
    /\ hass.data = {}

====
